---------------------------- MODULE Spec2Model ----------------------------
(***************************************************************************)
(* Orientation / convention validator for 3D scene graphs                  *)
(* (src/src/core/validation).                                              *)
(*                                                                         *)
(* Numbers.  The program computes in IEEE doubles; the model computes in   *)
(* fixed point:                                                            *)
(*   - a direction vector is a triple of integers in thousandths (One is   *)
(*     1.0), so (0,1,0) is <<0,1000,0>>;                                   *)
(*   - a bone position is a triple of integers in tenths of a unit;        *)
(*   - a bounding-box extent is an integer in thousandths of a unit;       *)
(*   - a confidence is an integer in units of 10^-5 (0.85 is 85000);       *)
(*   - an agreement score is an integer in units of 1/4000000.             *)
(* Axis-aligned inputs are exact in this representation.                   *)
(*                                                                         *)
(* A rotation (THREE.Quaternion) is a quadruple of integers <<x,y,z,w>>    *)
(* standing for the unit quaternion of that direction.                     *)
(***************************************************************************)
EXTENDS Integers, Sequences, FiniteSets

VARIABLES
    bones,        \* the StandardBones handed to calculateSkeletonOrientation
    orientation,  \* its OrientationResult ("pending" before the call)
    box,          \* the object handed to analyzeBoundingBox (its extents)
    bboxResult,   \* its GeometryAnalysisResult ("pending" before the call)
    scene,        \* the scene root handed to detectModelOrientation / validate
    detection,    \* the OrientationDetectionResult ("pending" before the call)
    report,       \* the ModelValidationReport ("pending" before the call)
    args,         \* the arguments handed to a function of math-utils
    result,       \* what it returned ("pending" before the call)
    file,         \* the file useModelLoader was last rendered with
    loads,        \* the loadModel calls made so far, each with its isCancelled
    hook,         \* the useState cells scene, isLoading and error of the hook
    urlRef        \* urlRef.current: the load whose object URL it holds

vars == <<bones, orientation, box, bboxResult, scene, detection, report,
          args, result, file, loads, hook, urlRef>>

\* a null result, and the value of a result variable before the call
NULL == [kind |-> "null"]
PENDING == [kind |-> "pending"]

(***************************************************************************)
(* Bounds of the model                                                     *)
(***************************************************************************)
\* the head leans sideways by -MaxLean..MaxLean tenths over a height of 8
MaxLean == 1
\* every bone offset is multiplied by 0..MaxSpread (0: all bones coincide)
MaxSpread == 1
\* box extents are 0..MaxDim steps of DimStep thousandths
MaxDim == 10

One == 10 * 100
DimStep == One \div 10

(***************************************************************************)
(* Integer helpers                                                         *)
(***************************************************************************)
Abs(n) == IF n < 0 THEN -n ELSE n
Max2(a, b) == IF a >= b THEN a ELSE b
Min2(a, b) == IF a <= b THEN a ELSE b
\* division truncating toward zero, b > 0
Quot(a, b) == IF a >= 0 THEN a \div b ELSE -((-a) \div b)
\* division rounding to nearest, b > 0
RoundDiv(a, b) == IF a >= 0 THEN (2 * a + b) \div (2 * b)
                  ELSE -((2 * (-a) + b) \div (2 * b))

RECURSIVE SqrtSearch(_, _, _)
SqrtSearch(n, lo, hi) ==
    IF lo >= hi THEN lo
    ELSE LET mid == (lo + hi + 1) \div 2
         IN  IF mid * mid <= n THEN SqrtSearch(n, mid, hi)
             ELSE SqrtSearch(n, lo, mid - 1)
\* floor of the square root, 0 <= n < 2^30
ISqrt(n) == SqrtSearch(n, 0, 32767)

(***************************************************************************)
(* THREE.Vector3                                                           *)
(***************************************************************************)
Vec(x, y, z) == <<x, y, z>>
ZeroVec == <<0, 0, 0>>
AxisX == <<One, 0, 0>>
AxisY == <<0, One, 0>>
AxisZ == <<0, 0, One>>
Neg(v) == <<-v[1], -v[2], -v[3]>>
Add(a, b) == <<a[1] + b[1], a[2] + b[2], a[3] + b[3]>>
\* Vector3.subVectors
Sub(a, b) == <<a[1] - b[1], a[2] - b[2], a[3] - b[3]>>
Scale(k, v) == <<k * v[1], k * v[2], k * v[3]>>
\* Vector3.dot on the integer components (scale One*One for two directions)
Dot(a, b) == a[1] * b[1] + a[2] * b[2] + a[3] * b[3]
\* Vector3.crossVectors on the integer components
Cross(a, b) == <<a[2] * b[3] - a[3] * b[2],
                 a[3] * b[1] - a[1] * b[3],
                 a[1] * b[2] - a[2] * b[1]>>
MaxAbs(v) == Max2(Abs(v[1]), Max2(Abs(v[2]), Abs(v[3])))

\* Vector3.normalize: divideScalar(length() || 1), so the zero vector stays
\* zero.  The vector is first brought to a magnitude near 10000 so that the
\* integer square root keeps four digits.
Rescaled(v, m) ==
    IF m = 0 THEN v
    ELSE IF m <= 10000 THEN Scale(10000 \div m, v)
    ELSE <<Quot(v[1], (m \div 10000) + 1), Quot(v[2], (m \div 10000) + 1),
           Quot(v[3], (m \div 10000) + 1)>>
\* Vector3.divideScalar(length() || 1), the result in thousandths
DivideScalar(w, len) ==
    IF len = 0 THEN ZeroVec
    ELSE <<RoundDiv(w[1] * One, len), RoundDiv(w[2] * One, len),
           RoundDiv(w[3] * One, len)>>
Length(w) == ISqrt(Dot(w, w))
Normalized(w) == DivideScalar(w, Length(w))
Normalize(v) == Normalized(Rescaled(v, MaxAbs(v)))

(***************************************************************************)
(* Rotations (THREE.Quaternion; the axis-aligned rotations are exact)      *)
(***************************************************************************)
\* a rotation is a quaternion <<x, y, z, w>> with integer components, standing
\* for the unit quaternion (x, y, z, w) / sqrt(x^2 + y^2 + z^2 + w^2)
Quaternion(x, y, z, w) == <<x, y, z, w>>
LengthSq(q) == q[1] * q[1] + q[2] * q[2] + q[3] * q[3] + q[4] * q[4]

\* Matrix4.makeRotationFromQuaternion: the three columns of the rotation
\* matrix, in thousandths
makeRotationFromQuaternion(q) ==
    LET x == q[1]  y == q[2]  z == q[3]  w == q[4]
        n == LengthSq(q)
        E(k) == (One * k) \div n
    IN  <<<<E(n - 2 * (y * y + z * z)), E(2 * (x * y + w * z)), E(2 * (x * z - w * y))>>,
          <<E(2 * (x * y - w * z)), E(n - 2 * (x * x + z * z)), E(2 * (y * z + w * x))>>,
          <<E(2 * (x * z + w * y)), E(2 * (y * z - w * x)), E(n - 2 * (x * x + y * y))>>>>

\* Vector3.applyQuaternion: v + w * t + q x t with t = 2 * (q x v)
ApplyRot(q, v) ==
    LET qv == <<q[1], q[2], q[3]>>
        t == Scale(2, Cross(qv, v))
        u == Add(Scale(q[4], t), Cross(qv, t))
    IN  <<v[1] + (u[1] \div LengthSq(q)), v[2] + (u[2] \div LengthSq(q)),
          v[3] + (u[3] \div LengthSq(q))>>

RotId   == Quaternion(0, 0, 0, 1)
RotY90  == Quaternion(0, 1, 0, 1)        \* +90 degrees about Y
RotY180 == Quaternion(0, 1, 0, 0)
RotX90  == Quaternion(1, 0, 0, 1)        \* +90 about X: a Z-up export
RotXm90 == Quaternion(-1, 0, 0, 1)       \* -90 about X
RotZ90  == Quaternion(0, 0, 1, 1)        \* +90 about Z: up becomes -X
RotZm90 == Quaternion(0, 0, -1, 1)       \* -90 about Z: up becomes +X
RotZ180 == Quaternion(0, 0, 1, 0)        \* upside down
RotUpXFwdY == Quaternion(1, 1, -1, 1)    \* up becomes +X, forward +Y
RotZUp  == Quaternion(0, 1, 1, 0)        \* a Z-up export: up +Z, forward -Y

\* forward taken from the +Z column: the sign of the -Z convention dropped
extractBasisVectors_plusZ(q) ==
    [right   |-> makeRotationFromQuaternion(q)[1],
     up      |-> makeRotationFromQuaternion(q)[2],
     forward |-> makeRotationFromQuaternion(q)[3]]

\* extractBasisVectors: right, up and -forward are the columns of the
\* rotation matrix
extractBasisVectors(q) ==
    [right   |-> makeRotationFromQuaternion(q)[1],
     up      |-> makeRotationFromQuaternion(q)[2],
     forward |-> Neg(makeRotationFromQuaternion(q)[3])]

(***************************************************************************)
(* StandardBones: which of the nine slots are filled, and where the bones  *)
(* are.  A skeleton is posed by its hips rotation `rot` (the hips bone's   *)
(* world quaternion; it carries the child bones with it), the sideways     *)
(* lean of the head and a spread factor applied to every offset.           *)
(***************************************************************************)
BoneNames == {"hips", "spine", "chest", "neck", "head", "leftShoulder",
              "rightShoulder", "leftUpperArm", "rightUpperArm"}

HipsPosition == <<0, 10, 0>>

\* offset of a bone from the hips, in the hips' frame (tenths)
BoneOffset(name, lean) ==
    CASE name = "hips"          -> <<0, 0, 0>>
      [] name = "spine"         -> <<-1, 2, 0>>
      [] name = "chest"         -> <<1, 4, 0>>
      [] name = "neck"          -> <<0, 6, 0>>
      [] name = "head"          -> <<lean, 8, 0>>
      [] name = "leftShoulder"  -> <<-2, 4, 0>>
      [] name = "rightShoulder" -> <<2, 4, 0>>
      [] name = "leftUpperArm"  -> <<-4, 4, 1>>
      [] name = "rightUpperArm" -> <<4, 4, -1>>

\* Object3D.getWorldPosition of a bone (after updateWorldMatrix)
getWorldPosition(b, name) ==
    Add(HipsPosition,
        ApplyRot(b.rot, Scale(One * b.spread, BoneOffset(name, b.lean))))

\* Object3D.getWorldQuaternion of the hips bone
getWorldQuaternion(b) == b.rot

Has(b, name) == name \in b.present

\* the cross products taken with their operands exchanged
calculateFromFullSkeleton_swapped(b) ==
    LET hipsPos == getWorldPosition(b, "hips")
        headPos == getWorldPosition(b, "head")
        leftBone  == IF Has(b, "leftShoulder") THEN "leftShoulder" ELSE "leftUpperArm"
        rightBone == IF Has(b, "rightShoulder") THEN "rightShoulder" ELSE "rightUpperArm"
        upVector == Normalize(Sub(headPos, hipsPos))
        right0   == Normalize(Sub(getWorldPosition(b, rightBone),
                                  getWorldPosition(b, leftBone)))
        forwardVector == Normalize(Cross(right0, upVector))
        rightVector   == Normalize(Cross(upVector, forwardVector))
    IN  [kind |-> "orientation",
         upVector |-> upVector, forwardVector |-> forwardVector,
         rightVector |-> rightVector, confidence |-> "high",
         method |-> "Full skeleton (hips, head, shoulders)"]

\* the result of calculateFromFullSkeleton from up and forward:
\* right = forward x up
FullResult(upVector, forwardVector) ==
    [kind |-> "orientation",
     upVector |-> upVector, forwardVector |-> forwardVector,
     rightVector |-> Normalize(Cross(forwardVector, upVector)),
     confidence |-> "high",
     method |-> "Full skeleton (hips, head, shoulders)"]

\* forward = up x (left shoulder to right shoulder)
FullBasis(upVector, right0) ==
    FullResult(upVector, Normalize(Cross(upVector, right0)))

calculateFromFullSkeleton(b) ==
    LET hipsPos == getWorldPosition(b, "hips")
        headPos == getWorldPosition(b, "head")
        leftBone  == IF Has(b, "leftShoulder") THEN "leftShoulder" ELSE "leftUpperArm"
        rightBone == IF Has(b, "rightShoulder") THEN "rightShoulder" ELSE "rightUpperArm"
        leftShoulderPos  == getWorldPosition(b, leftBone)
        rightShoulderPos == getWorldPosition(b, rightBone)
    IN  FullBasis(Normalize(Sub(headPos, hipsPos)),
                  Normalize(Sub(rightShoulderPos, leftShoulderPos)))

\* forward hint: the hips' local -Z projected onto the plane perpendicular
\* to up; right = up x forward
SpineResult(upVector, forwardVector, tier, method) ==
    [kind |-> "orientation",
     upVector |-> upVector, forwardVector |-> forwardVector,
     rightVector |-> Normalize(Cross(upVector, forwardVector)),
     confidence |-> tier, method |-> method]

\* upVector.clone().multiplyScalar(d), d in units of 1/(One * One)
MultiplyScalar(upVector, d) ==
    <<RoundDiv(upVector[1] * d, One * One), RoundDiv(upVector[2] * d, One * One),
      RoundDiv(upVector[3] * d, One * One)>>

SpineFrame(upVector, hipsForward, tier, method) ==
    SpineResult(upVector,
                Normalize(Sub(hipsForward,
                              MultiplyScalar(upVector, Dot(hipsForward, upVector)))),
                tier, method)

SpineBasis(b, topPos, tier, method) ==
    SpineFrame(Normalize(Sub(topPos, getWorldPosition(b, "hips"))),
               ApplyRot(getWorldQuaternion(b), Neg(AxisZ)), tier, method)

calculateFromSpineOnly(b) ==
    SpineBasis(b, getWorldPosition(b, "head"), "medium",
               "Spine only (hips to head, forward from hips orientation)")

calculateFromPartialSpine(b) ==
    LET topBone == IF Has(b, "neck") THEN "neck"
                   ELSE IF Has(b, "chest") THEN "chest" ELSE "spine"
    IN  SpineBasis(b, getWorldPosition(b, topBone), "low",
                   "Partial spine (limited bone data)")

\* a shoulder or upper arm on either side taken to be enough for the full
\* skeleton strategy
calculateSkeletonOrientation_eitherSide(b) ==
    IF Has(b, "hips") /\ Has(b, "head")
       /\ (Has(b, "leftShoulder") \/ Has(b, "leftUpperArm")
           \/ Has(b, "rightShoulder") \/ Has(b, "rightUpperArm"))
    THEN calculateFromFullSkeleton(b)
    ELSE IF Has(b, "hips") /\ Has(b, "head")
    THEN calculateFromSpineOnly(b)
    ELSE IF Has(b, "hips") /\ (Has(b, "spine") \/ Has(b, "chest") \/ Has(b, "neck"))
    THEN calculateFromPartialSpine(b)
    ELSE NULL

calculateSkeletonOrientation(b) ==
    IF Has(b, "hips") /\ Has(b, "head")
       /\ (Has(b, "leftShoulder") \/ Has(b, "leftUpperArm"))
       /\ (Has(b, "rightShoulder") \/ Has(b, "rightUpperArm"))
    THEN calculateFromFullSkeleton(b)
    ELSE IF Has(b, "hips") /\ Has(b, "head")
    THEN calculateFromSpineOnly(b)
    ELSE IF Has(b, "hips") /\ (Has(b, "spine") \/ Has(b, "chest") \/ Has(b, "neck"))
    THEN calculateFromPartialSpine(b)
    ELSE NULL

SkeletonRots == {RotId, RotY90, RotY180, RotX90}

BoneInputs ==
    [present : SUBSET BoneNames, spread : 0..MaxSpread,
     lean : (-MaxLean)..MaxLean, rot : SkeletonRots]

\* the skeleton of no scene in particular, for the specifications that do
\* not call calculateSkeletonOrientation directly
NoBones == [present |-> {}, spread |-> 1, lean |-> 0, rot |-> RotId]
NoBox == <<0, 0, 0>>
NoScene == [kind |-> "none"]
NoArgs == [fn |-> "none"]

\* useState(null), useState(false), useState(null) and useRef(null)
InitialState == [scene |-> NULL, isLoading |-> FALSE, error |-> NULL]
\* the hook before its first effect has run
NotMounted ==
    /\ file = NULL
    /\ loads = <<>>
    /\ hook = InitialState
    /\ urlRef = NULL

(***************************************************************************)
(* Specification SpecSkeleton: calculateSkeletonOrientation applied to     *)
(* every StandardBones of BoneInputs.                                      *)
(***************************************************************************)
InitSkeleton ==
    /\ NotMounted
    /\ bones \in BoneInputs
    /\ orientation = PENDING
    /\ box = NoBox
    /\ bboxResult = PENDING
    /\ scene = NoScene
    /\ detection = PENDING
    /\ report = PENDING
    /\ args = NoArgs
    /\ result = PENDING

CalculateSkeletonOrientation ==
    /\ orientation = PENDING
    /\ orientation' = calculateSkeletonOrientation(bones)
    /\ UNCHANGED <<bones, box, bboxResult, scene, detection, report, args, result,
                 file, loads, hook, urlRef>>

NextSkeleton == CalculateSkeletonOrientation

SpecSkeleton == InitSkeleton /\ [][NextSkeleton]_vars

(***************************************************************************)
(* analyzeBoundingBox.  `dims` are the extents <<x, y, z>> of               *)
(* Box3.setFromObject(object).getSize(), in thousandths; the empty box of  *)
(* an object without geometry has size (0,0,0).                            *)
(***************************************************************************)
\* ties broken with strict comparisons: a tie no longer goes to Y, then Z
getTallestAxis_strict(dims) ==
    IF dims[2] > dims[1] /\ dims[2] > dims[3] THEN "y"
    ELSE IF dims[3] > dims[1] /\ dims[3] > dims[2] THEN "z"
    ELSE "x"

getTallestAxis(dims) ==
    IF dims[2] >= dims[1] /\ dims[2] >= dims[3] THEN "y"
    ELSE IF dims[3] >= dims[1] /\ dims[3] >= dims[2] THEN "z"
    ELSE "x"

\* Math.min(0.6, 0.3 + (heightRatio - 1) * 0.15) with
\* heightRatio = dims.y / (maxHorizontal + 0.001), in units of 10^-5
YUpConfidence(dims) ==
    LET maxHorizontal == Max2(dims[1], dims[3])
    IN  Min2(60000,
             30000 + ((15000 * (dims[2] - (maxHorizontal + 1))) \div (maxHorizontal + 1)))

\* Math.min(0.7, 0.4 + Math.abs(dims.z / dims.y - 1) * 0.2); z / 0 is Infinity
ZUpConfidence(dims) ==
    IF dims[2] = 0 THEN 70000
    ELSE Min2(70000, 40000 + ((20000 * Abs(dims[3] - dims[2])) \div dims[2]))

Analysis(method, confidence, forward, up, tallestAxis, issue) ==
    [kind |-> "analysis", method |-> method, confidence |-> confidence,
     detectedForward |-> forward, detectedUp |-> up,
     tallestAxis |-> tallestAxis, issue |-> issue]

analyzeBoundingBox(dims) ==
    IF dims = <<0, 0, 0>> THEN NULL
    ELSE LET tallestAxis == getTallestAxis(dims)
         IN  IF tallestAxis = "y"
             THEN Analysis("bounding-box", YUpConfidence(dims), Neg(AxisZ), AxisY, "Y", "none")
             ELSE IF tallestAxis = "z"
             THEN Analysis("bounding-box", ZUpConfidence(dims), Neg(AxisY), AxisZ, "Z", "z-up")
             \* yToXRatio = dims.y / dims.x > 0.3
             ELSE IF 10 * dims[2] > 3 * dims[1]
             THEN Analysis("bounding-box", 30000, Neg(AxisZ), AxisY, "X", "none")
             ELSE Analysis("bounding-box", 25000, Neg(AxisZ), AxisX, "X", "possibly-sideways")

BoxInputs ==
    {<<DimStep * x, DimStep * y, DimStep * z>> : x, y, z \in 0..MaxDim}

(***************************************************************************)
(* Specification SpecBox: analyzeBoundingBox applied to every box of       *)
(* BoxInputs.                                                              *)
(***************************************************************************)
InitBox ==
    /\ NotMounted
    /\ bones = NoBones
    /\ orientation = PENDING
    /\ box \in BoxInputs
    /\ bboxResult = PENDING
    /\ scene = NoScene
    /\ detection = PENDING
    /\ report = PENDING
    /\ args = NoArgs
    /\ result = PENDING

AnalyzeBoundingBox ==
    /\ bboxResult = PENDING
    /\ bboxResult' = analyzeBoundingBox(box)
    /\ UNCHANGED <<bones, orientation, box, scene, detection, report, args, result,
                 file, loads, hook, urlRef>>

NextBox == AnalyzeBoundingBox

SpecBox == InitBox /\ [][NextBox]_vars

(***************************************************************************)
(* The scene root (THREE.Object3D) as the validator reads it:              *)
(*   hasSkeleton  analyzeSkeleton found a skinned mesh or a bone           *)
(*   skeleton     the StandardBones findStandardBones resolves, posed      *)
(*   dims         extents of Box3.setFromObject(object), thousandths       *)
(*   pivot        offset of the box from the bottom-centre position        *)
(*   quaternion   object.quaternion                                        *)
(*   scale        object.scale, in units of 1/ScaleOne                     *)
(*   matrixWorldFresh  the cached world matrices are up to date: the one   *)
(*                part of the scene the validator writes                   *)
(*                (updateWorldMatrix)                                      *)
(* A strategy that throws on a malformed scene is named in `thrown`:       *)
(* "skeleton" (analyzeSkeleton / findStandardBones /                       *)
(* calculateSkeletonOrientation), "bounding-box" (Box3.setFromObject) and  *)
(* "transform" (object.quaternion.clone()).                                *)
(***************************************************************************)
Strategies == {"skeleton", "bounding-box", "transform"}

\* the dot products taken without their sign: parallel counts as agreement
calculateOrientationAgreement_parallel(result1, result2) ==
    LET forwardDot == Abs(Dot(result1.detectedForward, result2.detectedForward))
        upDot == Abs(Dot(result1.detectedUp, result2.detectedUp))
    IN  (forwardDot + One * One) + (upDot + One * One)

\* calculateOrientationAgreement, in units of 1/4000000:
\* ((forwardDot + 1) / 2 + (upDot + 1) / 2) / 2
calculateOrientationAgreement(result1, result2) ==
    LET forwardDot == Dot(result1.detectedForward, result2.detectedForward)
        upDot == Dot(result1.detectedUp, result2.detectedUp)
    IN  (forwardDot + One * One) + (upDot + One * One)

\* the contradicted skeleton result kept at its tier value
applyCrossValidation_noPenalty(skeletonResult, bbox) == skeletonResult.confidence

applyCrossValidation(skeletonResult, bbox) ==
    LET confidence == skeletonResult.confidence
    IN  IF bbox = NULL THEN Min2(confidence, 85000)
        ELSE LET agreement == calculateOrientationAgreement(skeletonResult, bbox)
             IN  IF agreement >= 3600000 THEN Min2((confidence * 105) \div 100, 95000)
                 ELSE IF agreement >= 2800000 THEN Min2(confidence, 85000)
                 ELSE IF agreement >= 2000000 THEN (confidence * 7) \div 10
                 ELSE IF bbox.confidence > 60000 THEN (confidence * 4) \div 10
                 ELSE (confidence * 6) \div 10

\* the mapping without the conservative high tier: high = 0.95
confidenceMap_high95(tier) ==
    CASE tier = "high" -> 95000 [] tier = "medium" -> 70000 [] tier = "low" -> 50000

\* confidenceMap = { high: 0.85, medium: 0.7, low: 0.5 }
confidenceMap(tier) ==
    CASE tier = "high" -> 85000 [] tier = "medium" -> 70000 [] tier = "low" -> 50000

\* Array.prototype.sort((a, b) => b.confidence - a.confidence): stable,
\* descending by confidence
InsertByConfidence(sorted, r) ==
    LET before == {i \in 1..Len(sorted) : sorted[i].confidence >= r.confidence}
        k == IF before = {} THEN 0 ELSE CHOOSE i \in before : \A j \in before : j <= i
    IN  SubSeq(sorted, 1, k) \o <<r>> \o SubSeq(sorted, k + 1, Len(sorted))

\* the sort left out: results stay in the order the strategies pushed them
SortByConfidence_unsorted(results) == results

RECURSIVE SortByConfidence(_)
SortByConfidence(results) ==
    IF results = <<>> THEN <<>>
    ELSE InsertByConfidence(SortByConfidence(SubSeq(results, 1, Len(results) - 1)),
                            results[Len(results)])

\* Strategy 1 inside its try block: the skeleton result before
\* cross-validation, NULL when there is none or the strategy threw
SkeletonResult(orientation0) ==
    IF orientation0 = NULL THEN NULL
    ELSE [kind |-> "analysis", method |-> "skeleton",
          confidence |-> confidenceMap(orientation0.confidence),
          detectedForward |-> orientation0.forwardVector,
          detectedUp |-> orientation0.upVector,
          tallestAxis |-> "", issue |-> ""]

SkeletonStrategy(obj, thrown) ==
    IF "skeleton" \in thrown \/ ~obj.hasSkeleton THEN NULL
    ELSE SkeletonResult(calculateSkeletonOrientation(obj.skeleton))

\* the failure of Box3.setFromObject not isolated: an entry is contributed
\* although the strategy threw
BoundingBoxStrategy_unguarded(obj, thrown) == analyzeBoundingBox(obj.dims)

\* Strategy 2 inside its try block
BoundingBoxStrategy(obj, thrown) ==
    IF "bounding-box" \in thrown THEN NULL ELSE analyzeBoundingBox(obj.dims)

\* the fallback rated below every bounding-box verdict: confidence 0.2
TransformStrategy_conf20(obj, thrown) ==
    IF "transform" \in thrown THEN <<>>
    ELSE LET basis == extractBasisVectors(obj.quaternion)
         IN  <<Analysis("transform", 20000, basis.forward, basis.up, "", "")>>

\* Strategy 3 inside its try block
TransformStrategy(obj, thrown) ==
    IF "transform" \in thrown THEN <<>>
    ELSE LET basis == extractBasisVectors(obj.quaternion)
         IN  <<Analysis("transform", 30000, basis.forward, basis.up, "", "")>>

\* the transform result pushed only when no other strategy gave a result
Results_lastResort(skeletonResult, bbox, transform) ==
    IF skeletonResult = NULL /\ bbox = NULL THEN transform
    ELSE (IF skeletonResult = NULL THEN <<>>
          ELSE <<[skeletonResult EXCEPT
                    !.confidence = applyCrossValidation(skeletonResult, bbox)]>>)
         \o (IF bbox = NULL THEN <<>> ELSE <<bbox>>)

\* the results pushed, in order: the cross-validated skeleton result, the
\* bounding-box result, the transform result
Results(skeletonResult, bbox, transform) ==
    (IF skeletonResult = NULL THEN <<>>
     ELSE <<[skeletonResult EXCEPT
               !.confidence = applyCrossValidation(skeletonResult, bbox)]>>)
    \o (IF bbox = NULL THEN <<>> ELSE <<bbox>>)
    \o transform

\* best = results[0] of the sorted results
BestOf(sorted, thrown) ==
    [kind |-> "detection", detectedForward |-> sorted[1].detectedForward,
     detectedUp |-> sorted[1].detectedUp,
     confidence |-> sorted[1].confidence, method |-> sorted[1].method,
     allResults |-> sorted, warnings |-> thrown]

Detection(results, thrown) ==
    IF results = <<>>
    THEN [kind |-> "detection", detectedForward |-> Neg(AxisZ),
          detectedUp |-> AxisY, confidence |-> 0, method |-> "none",
          allResults |-> <<>>, warnings |-> thrown]
    ELSE BestOf(SortByConfidence(results), thrown)

detectModelOrientation(obj, thrown) ==
    Detection(Results(SkeletonStrategy(obj, thrown), BoundingBoxStrategy(obj, thrown),
                      TransformStrategy(obj, thrown)),
              thrown)

(***************************************************************************)
(* Validation checks.  A ValidationCheckResult keeps checkId, passed,      *)
(* severity and correctiveTransform (NULL when absent); the up and forward *)
(* checks also keep the measured vector and the detection they used.  A    *)
(* check that throws yields RAISED.                                        *)
(***************************************************************************)
RAISED == [kind |-> "raised"]

\* 1.0 of a scale component
ScaleOne == 2 * 100
\* SCALE_TOLERANCE = 0.01, in units of 1/ScaleOne
SCALE_TOLERANCE == 2
\* TOLERANCE = 0.05 of checkPivotPosition, in thousandths
TOLERANCE == 50
\* the tolerance cos(5 degrees) of the direction checks, in thousandths
ALIGNED == 996
\* min.y of the empty Box3 (+Infinity)
Infinity == One * One * One

\* a rational number num/den; den = 0 stands for 1/0
Ratio(num, den) == <<num, den>>

RotateTransform(axis, angleDegrees) ==
    [type |-> "rotate", axis |-> axis, angleDegrees |-> angleDegrees]
ScaleTransform(x, y, z) == [type |-> "scale", x |-> x, y |-> y, z |-> z]
TranslateTransform(x, y, z) == [type |-> "translate", x |-> x, y |-> y, z |-> z]

CheckResult(checkId, passed, severity, correctiveTransform) ==
    [kind |-> "check", checkId |-> checkId, passed |-> passed,
     severity |-> severity, correctiveTransform |-> correctiveTransform]

\* Math.acos(clamp(dot)) * (180 / Math.PI), kept as the dot product it is
\* taken of; and an angle written as a literal
AcosDegrees(dot) == [kind |-> "acos", dot |-> Max2(-(One * One), Min2(One * One, dot))]
Degrees(angle) == [kind |-> "degrees", value |-> angle]

DirectionResult(checkId, passed, severity, correctiveTransform, measured, d, deviation) ==
    [kind |-> "check", checkId |-> checkId, passed |-> passed,
     severity |-> severity, correctiveTransform |-> correctiveTransform,
     measuredValue |-> measured, detectionMethod |-> d.method,
     confidence |-> d.confidence, deviationAngleDegrees |-> deviation]

Max3(v) == Max2(v[1], Max2(v[2], v[3]))
Min3(v) == Min2(v[1], Min2(v[2], v[3]))

checkScale(obj) ==
    LET scale == obj.scale
        isUniform == (Max3(scale) - Min3(scale)) < SCALE_TOLERANCE
        isNormalized == /\ Abs(scale[1] - ScaleOne) < SCALE_TOLERANCE
                        /\ Abs(scale[2] - ScaleOne) < SCALE_TOLERANCE
                        /\ Abs(scale[3] - ScaleOne) < SCALE_TOLERANCE
    IN  IF isUniform /\ isNormalized
        THEN CheckResult("scale", TRUE, "info", NULL)
        ELSE CheckResult("scale", FALSE, "warning",
                 ScaleTransform(Ratio(ScaleOne, scale[1]), Ratio(ScaleOne, scale[2]),
                                Ratio(ScaleOne, scale[3])))

\* Matrix4.compose(0, quaternion, scale): column j is R(e_j) * scale_j;
\* the result is <<column 1, column 2, column 3>> in units of 1/ScaleOne
compose(q, scale) ==
    LET c1 == makeRotationFromQuaternion(q)[1]
        c2 == makeRotationFromQuaternion(q)[2]
        c3 == makeRotationFromQuaternion(q)[3]
    IN  <<<<(c1[1] * scale[1]) \div One, (c1[2] * scale[1]) \div One, (c1[3] * scale[1]) \div One>>,
          <<(c2[1] * scale[2]) \div One, (c2[2] * scale[2]) \div One, (c2[3] * scale[2]) \div One>>,
          <<(c3[1] * scale[3]) \div One, (c3[2] * scale[3]) \div One, (c3[3] * scale[3]) \div One>>>>

matrix3x3Determinant(m) ==
    LET m11 == m[1][1]  m12 == m[2][1]  m13 == m[3][1]
        m21 == m[1][2]  m22 == m[2][2]  m23 == m[3][2]
        m31 == m[1][3]  m32 == m[2][3]  m33 == m[3][3]
    IN  m11 * (m22 * m33 - m23 * m32)
        - m12 * (m21 * m33 - m23 * m31)
        + m13 * (m21 * m32 - m22 * m31)

\* the result of checkHandedness; measuredValue is the determinant, in units
\* of 1/ScaleOne^3
HandednessResult(passed, severity, correctiveTransform, det) ==
    [kind |-> "check", checkId |-> "handedness", passed |-> passed,
     severity |-> severity, correctiveTransform |-> correctiveTransform,
     measuredValue |-> det]

\* isRightHanded taken to be det >= 0: a collapsed transform passes
HandednessOf_nonNegative(det) ==
    IF det >= 0 THEN HandednessResult(TRUE, "info", NULL, det)
    ELSE HandednessResult(FALSE, "error",
             ScaleTransform(Ratio(-1, 1), Ratio(1, 1), Ratio(1, 1)), det)

\* isRightHanded = det > 0
HandednessOf(det) ==
    IF det > 0 THEN HandednessResult(TRUE, "info", NULL, det)
    ELSE HandednessResult(FALSE, "error",
             ScaleTransform(Ratio(-1, 1), Ratio(1, 1), Ratio(1, 1)), det)

checkHandedness(obj, thrown) ==
    IF "transform" \in thrown THEN RAISED
    ELSE HandednessOf(matrix3x3Determinant(compose(obj.quaternion, obj.scale)))

\* severity of a failed up-direction check
UpSeverity(d) ==
    LET hasSkeleton == d.method = "skeleton"
        lowConfidence == d.confidence < 50000
        isBoundingBox == d.method = "bounding-box"
    IN  IF isBoundingBox /\ lowConfidence THEN "warning"
        ELSE IF ~hasSkeleton THEN "warning"
        ELSE "error"

\* the sideways case turning the model the wrong way round
checkUpDirection_wrongTurn(obj, thrown) ==
    LET d == detectModelOrientation(obj, thrown)
        up == d.detectedUp
        upDot == Dot(up, AxisY)
        deviationAngle == AcosDegrees(upDot)
        Up(passed, severity, fix, deviation) ==
            DirectionResult("up-direction", passed, severity, fix, up, d, deviation)
    IN  IF upDot >= ALIGNED * One
        THEN Up(TRUE, "info", NULL, NULL)
        ELSE IF Dot(up, AxisZ) >= ALIGNED * One
        THEN Up(FALSE, UpSeverity(d), RotateTransform("x", -90), deviationAngle)
        ELSE IF Dot(up, Neg(AxisY)) >= ALIGNED * One
        THEN Up(FALSE, UpSeverity(d), RotateTransform("z", 180), Degrees(180))
        ELSE IF Abs(Dot(up, AxisX)) >= ALIGNED * One
        THEN Up(FALSE, UpSeverity(d),
                RotateTransform("z", IF up[1] > 0 THEN 90 ELSE -90), deviationAngle)
        ELSE Up(FALSE, UpSeverity(d), NULL, deviationAngle)

UpDirectionResult(d) ==
    LET up == d.detectedUp
        upDot == Dot(up, AxisY)
        deviationAngle == AcosDegrees(upDot)
        Up(passed, severity, fix, deviation) ==
            DirectionResult("up-direction", passed, severity, fix, up, d, deviation)
    IN  IF upDot >= ALIGNED * One
        THEN Up(TRUE, "info", NULL, NULL)
        ELSE IF Dot(up, AxisZ) >= ALIGNED * One
        THEN Up(FALSE, UpSeverity(d), RotateTransform("x", -90), deviationAngle)
        ELSE IF Dot(up, Neg(AxisY)) >= ALIGNED * One
        THEN Up(FALSE, UpSeverity(d), RotateTransform("z", 180), Degrees(180))
        ELSE IF Abs(Dot(up, AxisX)) >= ALIGNED * One
        THEN Up(FALSE, UpSeverity(d),
                RotateTransform("z", IF up[1] > 0 THEN -90 ELSE 90), deviationAngle)
        ELSE Up(FALSE, UpSeverity(d), NULL, deviationAngle)

checkUpDirection(obj, thrown) ==
    UpDirectionResult(detectModelOrientation(obj, thrown))

ForwardDirectionResult(d) ==
    LET forward == d.detectedForward
        forwardDot == Dot(forward, Neg(AxisZ))
        deviationAngle == AcosDegrees(forwardDot)
        Fwd(passed, severity, fix, deviation) ==
            DirectionResult("forward-direction", passed, severity, fix, forward, d,
                            deviation)
    IN  IF forwardDot >= ALIGNED * One
        THEN Fwd(TRUE, "info", NULL, NULL)
        ELSE IF Dot(forward, AxisZ) >= ALIGNED * One
        THEN Fwd(FALSE, "error", RotateTransform("y", 180), deviationAngle)
        \* forward.dot(0, -1, 0) >= 0.9
        ELSE IF Dot(forward, Neg(AxisY)) >= 900 * One
        THEN Fwd(FALSE, "error", RotateTransform("x", -90), deviationAngle)
        ELSE Fwd(FALSE, "error", NULL, deviationAngle)

checkForwardDirection(obj, thrown) ==
    ForwardDirectionResult(detectModelOrientation(obj, thrown))

\* the world bounding box: box.min.y, and box.getCenter() which is (0,0,0)
\* for the empty box
BoxMinY(obj) == IF obj.dims = <<0, 0, 0>> THEN Infinity ELSE obj.pivot[2]
BoxCenter(obj) ==
    IF obj.dims = <<0, 0, 0>> THEN <<0, 0, 0>>
    ELSE <<obj.pivot[1], obj.pivot[2] + (obj.dims[2] \div 2), obj.pivot[3]>>

\* the result of checkPivotPosition with its measuredValue
PivotResult(passed, severity, correctiveTransform, minY, center) ==
    [kind |-> "check", checkId |-> "pivot-position", passed |-> passed,
     severity |-> severity, correctiveTransform |-> correctiveTransform,
     measuredValue |-> [minY |-> minY, centerX |-> center[1], centerZ |-> center[3]]]

checkPivotPosition(obj, thrown) ==
    IF "bounding-box" \in thrown THEN RAISED
    ELSE LET center == BoxCenter(obj)
             minY == BoxMinY(obj)
             isYAtBottom == Abs(minY) < TOLERANCE
             isXCentered == Abs(center[1]) < TOLERANCE
             isZCentered == Abs(center[3]) < TOLERANCE
         IN  IF isYAtBottom /\ isXCentered /\ isZCentered
             THEN PivotResult(TRUE, "info", NULL, minY, center)
             ELSE PivotResult(FALSE, "warning",
                      TranslateTransform(-center[1], -minY, -center[3]),
                      minY, center)

(***************************************************************************)
(* ModelValidator                                                          *)
(***************************************************************************)
\* typePriority = { scale: 1, rotate: 2, translate: 3 }
typePriority(t) ==
    CASE t = "scale" -> 1 [] t = "rotate" -> 2 [] t = "translate" -> 3

\* an unstable sort: a correction goes in front of those of its own type
InsertByPriority_unstable(sorted, c) ==
    LET before == {i \in 1..Len(sorted) :
                      typePriority(sorted[i].type) < typePriority(c.type)}
        k == IF before = {} THEN 0 ELSE CHOOSE i \in before : \A j \in before : j <= i
    IN  SubSeq(sorted, 1, k) \o <<c>> \o SubSeq(sorted, k + 1, Len(sorted))

\* corrections.sort((a, b) => typePriority[a.type] - typePriority[b.type]):
\* stable, ascending by priority
InsertByPriority(sorted, c) ==
    LET before == {i \in 1..Len(sorted) :
                      typePriority(sorted[i].type) <= typePriority(c.type)}
        k == IF before = {} THEN 0 ELSE CHOOSE i \in before : \A j \in before : j <= i
    IN  SubSeq(sorted, 1, k) \o <<c>> \o SubSeq(sorted, k + 1, Len(sorted))

RECURSIVE SortByPriority(_)
SortByPriority(corrections) ==
    IF corrections = <<>> THEN <<>>
    ELSE InsertByPriority(SortByPriority(SubSeq(corrections, 1, Len(corrections) - 1)),
                          corrections[Len(corrections)])

RECURSIVE CollectCorrections(_)
CollectCorrections(checks) ==
    IF checks = <<>> THEN <<>>
    ELSE LET check == Head(checks)
         IN  (IF check.correctiveTransform # NULL /\ ~check.passed
              THEN <<check.correctiveTransform>> ELSE <<>>)
             \o CollectCorrections(Tail(checks))

orderCorrections(checks) == SortByPriority(CollectCorrections(checks))

\* every failed check counted, whatever its severity
CountFailed_anySeverity(checks, severity) ==
    Cardinality({i \in 1..Len(checks) : ~checks[i].passed})

CountFailed(checks, severity) ==
    Cardinality({i \in 1..Len(checks) :
                    ~checks[i].passed /\ checks[i].severity = severity})

Report(checks, errorCount, warningCount) ==
    [kind |-> "report", checks |-> checks,
     overallPassed |-> (errorCount = 0),
     errorCount |-> errorCount, warningCount |-> warningCount,
     suggestedCorrections |-> orderCorrections(checks)]

\* the report of the five results; an exception thrown by a check leaves
\* validate
ReportOf(checks) ==
    IF \E i \in 1..5 : checks[i] = RAISED THEN RAISED
    ELSE Report(checks, CountFailed(checks, "error"), CountFailed(checks, "warning"))

validate(obj, thrown) ==
    ReportOf(<<checkScale(obj),
               checkHandedness(obj, thrown),
               checkUpDirection(obj, thrown),
               checkForwardDirection(obj, thrown),
               checkPivotPosition(obj, thrown)>>)

(***************************************************************************)
(* Scenes                                                                  *)
(***************************************************************************)
SceneRots == {RotId, RotY180, RotX90, RotXm90, RotZ90, RotZm90, RotZ180, RotUpXFwdY}

Skeleton(present, rot, lean) ==
    [present |-> present, spread |-> 1, lean |-> lean, rot |-> rot]

FullBones == BoneNames
SpineOnlyBones == {"hips", "spine", "head", "rightShoulder"}
PartialBones == {"hips", "chest"}
\* a full skeleton whose shoulders are missing: the upper arms stand in
ArmBones == BoneNames \ {"leftShoulder", "rightShoulder"}

NoSkeleton == [hasSkeleton |-> FALSE, skeleton |-> NoBones]
WithSkeleton(sk) == [hasSkeleton |-> TRUE, skeleton |-> sk]

\* no skeleton at all; bones none of which is a standard bone; a hips-only
\* skeleton; partial and spine-only skeletons in every rotation; full
\* skeletons in every rotation and lean
SceneSkeletons ==
    {NoSkeleton, WithSkeleton(NoBones), WithSkeleton(Skeleton({"hips"}, RotId, 0))}
    \cup {WithSkeleton(Skeleton(p, r, 0)) :
            p \in {SpineOnlyBones, PartialBones}, r \in SceneRots}
    \cup {WithSkeleton(Skeleton(FullBones, r, l)) :
            r \in SceneRots, l \in (-MaxLean)..MaxLean}

\* no geometry, a standing humanoid, a near cube, a cube, a Z-up export
\* (strong and mild), a wide prop and a lying model (steps of DimStep)
SceneDims ==
    {Scale(DimStep, d) : d \in {<<0, 0, 0>>, <<3, 10, 2>>, <<9, 10, 8>>,
                                <<10, 10, 10>>, <<3, 2, 10>>, <<8, 8, 10>>,
                                <<10, 4, 5>>, <<10, 2, 3>>}}

UnitScale == <<ScaleOne, ScaleOne, ScaleOne>>

SceneOf(sk, d, pivot, q, scale) ==
    [hasSkeleton |-> sk.hasSkeleton, skeleton |-> sk.skeleton, dims |-> d,
     pivot |-> pivot, quaternion |-> q, scale |-> scale,
     matrixWorldFresh |-> FALSE]

\* checkScale normalising object.scale itself instead of its clone
SceneAfter_inPlace(obj, fresh) ==
    [obj EXCEPT !.matrixWorldFresh = fresh, !.scale = UnitScale]

\* the scene after the call: bone.updateWorldMatrix(true, false) and
\* Box3.setFromObject refresh the cached world matrices and write nothing
\* else
SceneAfter(obj, fresh) == [obj EXCEPT !.matrixWorldFresh = fresh]

\* whether the world matrices are fresh after detectModelOrientation: they
\* are once calculateSkeletonOrientation or Box3.setFromObject has run, and
\* may be when one of them threw part of the way
DetectRefreshes(obj, thrown) ==
    {obj.matrixWorldFresh \/ SkeletonStrategy(obj, thrown) # NULL
        \/ "bounding-box" \notin thrown}
    \cup (IF thrown \cap {"skeleton", "bounding-box"} # {} THEN {TRUE} ELSE {})

\* after validate: checkHandedness throws before any check that refreshes
ValidateRefreshes(obj, thrown) ==
    IF "transform" \in thrown THEN {obj.matrixWorldFresh}
    ELSE DetectRefreshes(obj, thrown)

DetectScenes ==
    {SceneOf(sk, d, <<0, 0, 0>>, q, UnitScale) :
        sk \in SceneSkeletons, d \in SceneDims, q \in SceneRots}

(***************************************************************************)
(* Specification SpecDetect: detectModelOrientation applied to every scene *)
(* of DetectScenes, with every set of strategies throwing.                 *)
(***************************************************************************)
InitDetect ==
    /\ NotMounted
    /\ bones = NoBones
    /\ orientation = PENDING
    /\ box = NoBox
    /\ bboxResult = PENDING
    /\ scene \in DetectScenes
    /\ detection = PENDING
    /\ report = PENDING
    /\ args = NoArgs
    /\ result = PENDING

DetectModelOrientation ==
    /\ detection = PENDING
    /\ \E thrown \in SUBSET Strategies :
          /\ detection' = detectModelOrientation(scene, thrown)
          /\ \E fresh \in DetectRefreshes(scene, thrown) :
                scene' = SceneAfter(scene, fresh)
    /\ UNCHANGED <<bones, orientation, box, bboxResult, report, args, result,
                 file, loads, hook, urlRef>>

NextDetect == DetectModelOrientation

SpecDetect == InitDetect /\ [][NextDetect]_vars

(***************************************************************************)
(* Specification Spec: ModelValidator.validate applied to every scene of   *)
(* ValidateScenes, with every set of strategies throwing.                  *)
(***************************************************************************)
ValidateSkeletons ==
    {NoSkeleton}
    \cup {WithSkeleton(Skeleton(FullBones, r, 0)) : r \in SceneRots}
    \cup {WithSkeleton(Skeleton(FullBones, RotId, l)) : l \in (-MaxLean)..MaxLean}
    \cup {WithSkeleton(Skeleton(SpineOnlyBones, r, 0)) : r \in {RotId, RotX90}}
    \cup {WithSkeleton(Skeleton(ArmBones, r, 0)) : r \in {RotId, RotXm90}}
    \cup {WithSkeleton(Skeleton(FullBones, RotZUp, 0))}

ValidateDims ==
    {Scale(DimStep, d) : d \in {<<0, 0, 0>>, <<3, 10, 2>>, <<10, 10, 10>>,
                                <<3, 2, 10>>, <<10, 2, 3>>}}

ValidateRots == {RotId, RotX90, RotZm90, RotZ180}

\* (1,1,1); within tolerance; (2,2,2); mirrored; mirrored and doubled;
\* non-uniform by exactly the tolerance; a zero component
SceneScales ==
    {UnitScale, <<ScaleOne + 1, ScaleOne, ScaleOne>>,
     Scale(2, UnitScale), <<-ScaleOne, ScaleOne, ScaleOne>>,
     <<-2 * ScaleOne, 2 * ScaleOne, 2 * ScaleOne>>,
     <<ScaleOne, ScaleOne, ScaleOne - SCALE_TOLERANCE>>,
     <<0, ScaleOne, ScaleOne>>}

\* bottom-centre; offset (1,0,1); raised by exactly the tolerance
ScenePivots == {<<0, 0, 0>>, <<One, 0, One>>, <<0, TOLERANCE, 0>>}

ValidateScenes ==
    {SceneOf(sk, d, p, q, sc) :
        sk \in ValidateSkeletons, d \in ValidateDims, p \in ScenePivots,
        q \in ValidateRots, sc \in SceneScales}

Init ==
    /\ NotMounted
    /\ bones = NoBones
    /\ orientation = PENDING
    /\ box = NoBox
    /\ bboxResult = PENDING
    /\ scene \in ValidateScenes
    /\ detection = PENDING
    /\ report = PENDING
    /\ args = NoArgs
    /\ result = PENDING

Validate ==
    /\ report = PENDING
    /\ \E thrown \in SUBSET Strategies :
          /\ report' = validate(scene, thrown)
          /\ \E fresh \in ValidateRefreshes(scene, thrown) :
                scene' = SceneAfter(scene, fresh)
    /\ UNCHANGED <<bones, orientation, box, bboxResult, detection, args, result,
                 file, loads, hook, urlRef>>

Next == Validate

Spec == Init /\ [][Next]_vars

(***************************************************************************)
(* skeleton-detector.  A string is the sequence of its characters; a bone  *)
(* is known by its identity `id` and carries its name; a Map is the        *)
(* sequence of its entries in insertion order.                             *)
(***************************************************************************)
MaxBones == 3

UpperCase == <<"A", "B", "C", "D", "E", "F", "G", "H", "I", "J", "K", "L", "M",
               "N", "O", "P", "Q", "R", "S", "T", "U", "V", "W", "X", "Y", "Z">>
LowerCase == <<"a", "b", "c", "d", "e", "f", "g", "h", "i", "j", "k", "l", "m",
               "n", "o", "p", "q", "r", "s", "t", "u", "v", "w", "x", "y", "z">>

\* the lower-case letter of each upper-case letter
LowerOf ==
    [c \in {UpperCase[i] : i \in 1..26} |->
        LowerCase[CHOOSE i \in 1..26 : UpperCase[i] = c]]

\* String.prototype.toLowerCase
toLowerCase(s) ==
    [k \in 1..Len(s) |-> IF s[k] \in DOMAIN LowerOf THEN LowerOf[s[k]] ELSE s[k]]

\* String.prototype.startsWith
startsWith(s, prefix) ==
    Len(s) >= Len(prefix) /\ SubSeq(s, 1, Len(prefix)) = prefix

\* A regular expression anchored at both ends with the flag i, as the
\* sequence of its parts: each part is a set of alternative strings, taken
\* once (min 1), optionally (min 0) or any number of times (many)
Part(alts, min, many) == [alts |-> alts, min |-> min, many |-> many]
Lit(s) == Part({s}, 1, FALSE)
Alt(alts) == Part(alts, 1, FALSE)
OptAlt(alts) == Part(alts, 0, FALSE)
OneOf(chars) == Part({<<c>> : c \in chars}, 1, FALSE)
Opt(chars) == Part({<<c>> : c \in chars}, 0, FALSE)
Star(chars) == Part({<<c>> : c \in chars}, 0, TRUE)

Digits == {"0", "1", "2", "3", "4", "5", "6", "7", "8", "9"}
Whitespace == {" ", "\t"}
\* the character classes [:\._-] and [\s_-]
Sep == {":", ".", "_", "-"}
Gap == Whitespace \cup {"_", "-"}

RECURSIVE MatchesFrom(_, _)
MatchesFrom(parts, s) ==
    IF parts = <<>> THEN s = <<>>
    ELSE \/ Head(parts).min = 0 /\ MatchesFrom(Tail(parts), s)
         \/ \E a \in Head(parts).alts :
               /\ startsWith(s, a)
               /\ MatchesFrom(IF Head(parts).many THEN parts ELSE Tail(parts),
                              SubSeq(s, Len(a) + 1, Len(s)))

\* RegExp.prototype.test for a pattern written in lower case with flag i
RegExpTest(pattern, s) == MatchesFrom(pattern, toLowerCase(s))

StandardNames ==
    <<"hips", "spine", "chest", "neck", "head", "leftShoulder", "rightShoulder",
      "leftUpperArm", "rightUpperArm">>

BONE_PATTERNS ==
    [hips |->
        <<<<Lit(<<"m", "i", "x", "a", "m", "o", "r", "i", "g">>), Opt(Sep), Lit(<<"h", "i", "p", "s">>)>>,
          <<Lit(<<"h", "i", "p">>), Opt({"s"})>>,
          <<Lit(<<"p", "e", "l", "v", "i", "s">>)>>,
          <<Lit(<<"r", "o", "o", "t">>)>>,
          <<Lit(<<"b", "i", "p">>), Star(Digits), Opt(Sep), Lit(<<"p", "e", "l", "v", "i", "s">>)>>,
          <<Lit(<<"c", "o", "g">>)>>>>,
     spine |->
        <<<<Lit(<<"m", "i", "x", "a", "m", "o", "r", "i", "g">>), Opt(Sep), Lit(<<"s", "p", "i", "n", "e">>)>>,
          <<Lit(<<"s", "p", "i", "n", "e">>)>>,
          <<Lit(<<"b", "i", "p">>), Star(Digits), Opt(Sep), Lit(<<"s", "p", "i", "n", "e">>)>>,
          <<Lit(<<"t", "o", "r", "s", "o">>)>>>>,
     chest |->
        <<<<Lit(<<"m", "i", "x", "a", "m", "o", "r", "i", "g">>), Opt(Sep), Lit(<<"s", "p", "i", "n", "e">>), OneOf({"1", "2"})>>,
          <<Lit(<<"c", "h", "e", "s", "t">>)>>,
          <<Lit(<<"u", "p", "p", "e", "r">>), Opt(Gap), Lit(<<"c", "h", "e", "s", "t">>)>>,
          <<Lit(<<"r", "i", "b", "c", "a", "g", "e">>)>>>>,
     neck |->
        <<<<Lit(<<"m", "i", "x", "a", "m", "o", "r", "i", "g">>), Opt(Sep), Lit(<<"n", "e", "c", "k">>)>>,
          <<Lit(<<"n", "e", "c", "k">>)>>,
          <<Lit(<<"b", "i", "p">>), Star(Digits), Opt(Sep), Lit(<<"n", "e", "c", "k">>)>>>>,
     head |->
        <<<<Lit(<<"m", "i", "x", "a", "m", "o", "r", "i", "g">>), Opt(Sep), Lit(<<"h", "e", "a", "d">>)>>,
          <<Lit(<<"h", "e", "a", "d">>)>>,
          <<Lit(<<"b", "i", "p">>), Star(Digits), Opt(Sep), Lit(<<"h", "e", "a", "d">>)>>,
          <<Lit(<<"c", "r", "a", "n", "i", "u", "m">>)>>>>,
     leftShoulder |->
        <<<<Lit(<<"m", "i", "x", "a", "m", "o", "r", "i", "g">>), Opt(Sep), Lit(<<"l", "e", "f", "t", "s", "h", "o", "u", "l", "d", "e", "r">>)>>,
          <<Lit(<<"l", "e", "f", "t">>), Opt(Gap), Lit(<<"s", "h", "o", "u", "l", "d", "e", "r">>)>>,
          <<Lit(<<"s", "h", "o", "u", "l", "d", "e", "r">>), Opt(Sep), Lit(<<"l">>)>>,
          <<Lit(<<"l">>), Opt(Sep), Lit(<<"s", "h", "o", "u", "l", "d", "e", "r">>)>>,
          <<Lit(<<"c", "l", "a", "v", "i", "c", "l", "e">>), Opt(Sep), Lit(<<"l">>)>>,
          <<Lit(<<"l">>), Opt(Sep), Lit(<<"c", "l", "a", "v", "i", "c", "l", "e">>)>>>>,
     rightShoulder |->
        <<<<Lit(<<"m", "i", "x", "a", "m", "o", "r", "i", "g">>), Opt(Sep), Lit(<<"r", "i", "g", "h", "t", "s", "h", "o", "u", "l", "d", "e", "r">>)>>,
          <<Lit(<<"r", "i", "g", "h", "t">>), Opt(Gap), Lit(<<"s", "h", "o", "u", "l", "d", "e", "r">>)>>,
          <<Lit(<<"s", "h", "o", "u", "l", "d", "e", "r">>), Opt(Sep), Lit(<<"r">>)>>,
          <<Lit(<<"r">>), Opt(Sep), Lit(<<"s", "h", "o", "u", "l", "d", "e", "r">>)>>,
          <<Lit(<<"c", "l", "a", "v", "i", "c", "l", "e">>), Opt(Sep), Lit(<<"r">>)>>,
          <<Lit(<<"r">>), Opt(Sep), Lit(<<"c", "l", "a", "v", "i", "c", "l", "e">>)>>>>,
     leftUpperArm |->
        <<<<Lit(<<"m", "i", "x", "a", "m", "o", "r", "i", "g">>), Opt(Sep), Lit(<<"l", "e", "f", "t", "a", "r", "m">>)>>,
          <<Lit(<<"l", "e", "f", "t">>), Opt(Gap), Lit(<<"u", "p", "p", "e", "r">>), Opt(Gap), Lit(<<"a", "r", "m">>)>>,
          <<Lit(<<"a", "r", "m">>), Opt(Sep), Lit(<<"l">>)>>,
          <<Lit(<<"l">>), Opt(Sep), Lit(<<"a", "r", "m">>)>>,
          <<Lit(<<"u", "p", "p", "e", "r", "a", "r", "m">>), Opt(Sep), Lit(<<"l">>)>>>>,
     rightUpperArm |->
        <<<<Lit(<<"m", "i", "x", "a", "m", "o", "r", "i", "g">>), Opt(Sep), Lit(<<"r", "i", "g", "h", "t", "a", "r", "m">>)>>,
          <<Lit(<<"r", "i", "g", "h", "t">>), Opt(Gap), Lit(<<"u", "p", "p", "e", "r">>), Opt(Gap), Lit(<<"a", "r", "m">>)>>,
          <<Lit(<<"a", "r", "m">>), Opt(Sep), Lit(<<"r">>)>>,
          <<Lit(<<"r">>), Opt(Sep), Lit(<<"a", "r", "m">>)>>,
          <<Lit(<<"u", "p", "p", "e", "r", "a", "r", "m">>), Opt(Sep), Lit(<<"r">>)>>>>]

\* Array.prototype.reduce over a sequence
RECURSIVE Reduce(_, _, _)
Reduce(Op(_, _), acc, s) ==
    IF s = <<>> THEN acc ELSE Reduce(Op, Op(acc, Head(s)), Tail(s))

\* Map.prototype.set: an existing key keeps its place and gets the new
\* value, a new key is appended
MapSet(map, key, value) ==
    IF \E i \in 1..Len(map) : map[i].key = key
    THEN [i \in 1..Len(map) |->
             IF map[i].key = key THEN [key |-> key, bone |-> value] ELSE map[i]]
    ELSE Append(map, [key |-> key, bone |-> value])

MapKeys(map) == {map[i].key : i \in 1..Len(map)}

\* one bone of the loop of findStandardBones with the null test left out:
\* a later matching bone takes the slot over
FillSlots_overwrite(found, entry) ==
    [slot \in DOMAIN found |->
        IF \E k \in 1..Len(BONE_PATTERNS[slot]) :
               RegExpTest(BONE_PATTERNS[slot][k], entry.key)
        THEN entry.bone ELSE found[slot]]

\* one bone of the outer loop of findStandardBones: every slot still null
\* one of whose patterns matches the bone's key is given the bone
FillSlots(found, entry) ==
    [slot \in DOMAIN found |->
        IF found[slot] = NULL
           /\ \E k \in 1..Len(BONE_PATTERNS[slot]) :
                 RegExpTest(BONE_PATTERNS[slot][k], entry.key)
        THEN entry.bone ELSE found[slot]]

findStandardBones(bonesByName) ==
    Reduce(FillSlots, [slot \in DOMAIN BONE_PATTERNS |-> NULL], bonesByName)

mixamorig == <<"m", "i", "x", "a", "m", "o", "r", "i", "g">>
bip == <<"b", "i", "p">>
\* /^(left|right)(upper|lower)?(arm|leg|hand|foot)$/i
UnityPattern ==
    <<Alt({<<"l", "e", "f", "t">>, <<"r", "i", "g", "h", "t">>}),
      OptAlt({<<"u", "p", "p", "e", "r">>, <<"l", "o", "w", "e", "r">>}),
      Alt({<<"a", "r", "m">>, <<"l", "e", "g">>, <<"h", "a", "n", "d">>,
           <<"f", "o", "o", "t">>})>>

\* the Unity rule tried before the Mixamo rule
detectRigType_unityFirst(bonesByName) ==
    IF \E n \in MapKeys(bonesByName) : RegExpTest(UnityPattern, n) THEN "unity-humanoid"
    ELSE IF \E n \in MapKeys(bonesByName) : startsWith(n, mixamorig) THEN "mixamo"
    ELSE IF \E n \in MapKeys(bonesByName) : startsWith(n, bip) THEN "unreal"
    ELSE IF Len(bonesByName) > 0 THEN "custom"
    ELSE "unknown"

detectRigType(bonesByName) ==
    IF \E n \in MapKeys(bonesByName) : startsWith(n, mixamorig) THEN "mixamo"
    ELSE IF \E n \in MapKeys(bonesByName) : RegExpTest(UnityPattern, n) THEN "unity-humanoid"
    ELSE IF \E n \in MapKeys(bonesByName) : startsWith(n, bip) THEN "unreal"
    ELSE IF Len(bonesByName) > 0 THEN "custom"
    ELSE "unknown"

\* Object3D.traverse: the node, then its children in order, depth first
RECURSIVE Traverse(_)
RECURSIVE TraverseAll(_)
Traverse(node) == <<node>> \o TraverseAll(node.children)
TraverseAll(nodes) ==
    IF nodes = <<>> THEN <<>> ELSE Traverse(Head(nodes)) \o TraverseAll(Tail(nodes))

\* a bone as allBones and bonesByName hold it
BoneRef(id, name, parentIsBone) ==
    [id |-> id, name |-> name, parentIsBone |-> parentIsBone]

Includes(allBones, bone) == \E i \in 1..Len(allBones) : allBones[i].id = bone.id

\* the bone pushed without the test allBones.includes(bone)
Collect_noDedup(acc, bone) ==
    [acc EXCEPT !.allBones = Append(@, bone),
                !.bonesByName = MapSet(@, toLowerCase(bone.name), bone)]

\* if (!allBones.includes(bone)) { allBones.push(bone);
\*   bonesByName.set(bone.name.toLowerCase(), bone) }
Collect(acc, bone) ==
    IF Includes(acc.allBones, bone) THEN acc
    ELSE [acc EXCEPT !.allBones = Append(@, bone),
                     !.bonesByName = MapSet(@, toLowerCase(bone.name), bone)]

VisitSkinnedMesh(acc, child) ==
    IF child.type # "SkinnedMesh" THEN acc
    ELSE IF child.skeleton = NULL
    THEN [acc EXCEPT !.skinnedMeshes = Append(@, child.id)]
    ELSE Reduce(Collect, [acc EXCEPT !.skinnedMeshes = Append(@, child.id)],
                child.skeleton.bones)

VisitBone(acc, child) ==
    IF child.type # "Bone" THEN acc
    ELSE Collect(acc, BoneRef(child.id, child.name, child.parentIsBone))

\* the callback of object.traverse
Visit(acc, child) == VisitBone(VisitSkinnedMesh(acc, child), child)

\* the first bone whose parent is not a bone, else bones[0], else null
findRootBone(allBones) ==
    IF \E i \in 1..Len(allBones) : ~allBones[i].parentIsBone
    THEN allBones[CHOOSE i \in 1..Len(allBones) :
                     /\ ~allBones[i].parentIsBone
                     /\ \A j \in 1..(i - 1) : allBones[j].parentIsBone]
    ELSE IF allBones # <<>> THEN allBones[1] ELSE NULL

SkeletonAnalysis(acc) ==
    [kind |-> "skeleton-analysis",
     hasSkeleton |-> Len(acc.skinnedMeshes) > 0 \/ Len(acc.allBones) > 0,
     skinnedMeshes |-> acc.skinnedMeshes,
     rootBone |-> findRootBone(acc.allBones),
     allBones |-> acc.allBones,
     bonesByName |-> acc.bonesByName,
     detectedRigType |-> detectRigType(acc.bonesByName)]

analyzeSkeleton(object) ==
    SkeletonAnalysis(Reduce(Visit,
                            [skinnedMeshes |-> <<>>, allBones |-> <<>>,
                             bonesByName |-> <<>>],
                            Traverse(object)))

(***************************************************************************)
(* Scene graphs for analyzeSkeleton: up to MaxBones bones named from       *)
(* RigNames, laid out flat, as a chain, bound to a skinned mesh that       *)
(* precedes them, bound to a skinned mesh only, or beside a skinned mesh   *)
(* without skeleton.                                                       *)
(***************************************************************************)
Name_Hips == <<"H", "i", "p", "s">>
Name_hips == <<"h", "i", "p", "s">>
Name_Pelvis == <<"P", "e", "l", "v", "i", "s">>
Name_MixamoHips == <<"m", "i", "x", "a", "m", "o", "r", "i", "g", ":", "H", "i", "p", "s">>
Name_Head == <<"H", "e", "a", "d">>
Name_LeftArm == <<"L", "e", "f", "t", "A", "r", "m">>
Name_BipSpine == <<"B", "i", "p", "0", "1", "_", "S", "p", "i", "n", "e">>
Name_Tail == <<"T", "a", "i", "l">>
RigNames ==
    {Name_Hips, Name_hips, Name_Pelvis, Name_MixamoHips,
     Name_Head, Name_LeftArm, Name_BipSpine, Name_Tail}

BoneNode(id, name, parentIsBone, children) ==
    [type |-> "Bone", id |-> id, name |-> name, parentIsBone |-> parentIsBone,
     children |-> children]
SkinnedMeshNode(skeleton) ==
    [type |-> "SkinnedMesh", id |-> 0, skeleton |-> skeleton, children |-> <<>>]
Object3DNode(children) == [type |-> "Object3D", children |-> children]

\* bones 1..Len(names) side by side
FlatBones(names) ==
    [i \in 1..Len(names) |-> BoneNode(i, names[i], FALSE, <<>>)]

\* bone i the parent of bone i + 1
RECURSIVE ChainFrom(_, _)
ChainFrom(names, i) ==
    IF i > Len(names) THEN <<>>
    ELSE <<BoneNode(i, names[i], i > 1, ChainFrom(names, i + 1))>>

\* skeleton.bones of the chain, last bone first
BoundReversed(names) ==
    [bones |-> [i \in 1..Len(names) |->
                   BoneRef(Len(names) + 1 - i, names[Len(names) + 1 - i],
                           Len(names) + 1 - i > 1)]]

Layouts == {"flat", "chain", "skinned-first", "skinned-only", "unbound"}

RigScene(names, layout) ==
    CASE layout = "flat" -> Object3DNode(FlatBones(names))
      [] layout = "chain" -> Object3DNode(ChainFrom(names, 1))
      [] layout = "skinned-first" ->
            Object3DNode(<<SkinnedMeshNode(BoundReversed(names))>>
                         \o ChainFrom(names, 1))
      [] layout = "skinned-only" ->
            Object3DNode(<<SkinnedMeshNode(BoundReversed(names))>>)
      [] layout = "unbound" ->
            Object3DNode(<<SkinnedMeshNode(NULL)>> \o FlatBones(names))

NameLists == UNION {[1..n -> RigNames] : n \in 0..MaxBones}

\* createBoneMap(boneNames) of the tests: one new bone per name, set under
\* the lowercased name; findStandardBones is exported and takes any Map, so
\* the maps keyed by the names as they are written are inputs too
MapOf(names, lowered) ==
    Reduce(LAMBDA map, i :
               MapSet(map, IF lowered THEN toLowerCase(names[i]) ELSE names[i],
                      BoneRef(i, names[i], FALSE)),
           <<>>, [i \in 1..Len(names) |-> i])

RigArgs ==
    {[fn |-> "analyzeSkeleton", object |-> RigScene(names, layout)] :
        names \in NameLists, layout \in Layouts}
    \cup {[fn |-> "findStandardBones", bonesByName |-> MapOf(names, lowered)] :
            names \in NameLists, lowered \in BOOLEAN}

(***************************************************************************)
(* Specification SpecRig: analyzeSkeleton applied to every scene graph    *)
(* and findStandardBones to every map of RigArgs.                          *)
(***************************************************************************)
InitRig ==
    /\ NotMounted
    /\ bones = NoBones
    /\ orientation = PENDING
    /\ box = NoBox
    /\ bboxResult = PENDING
    /\ scene = NoScene
    /\ detection = PENDING
    /\ report = PENDING
    /\ args \in RigArgs
    /\ result = PENDING

AnalyzeSkeleton ==
    /\ result = PENDING
    /\ args.fn = "analyzeSkeleton"
    /\ result' = analyzeSkeleton(args.object)
    /\ UNCHANGED <<bones, orientation, box, bboxResult, scene, detection, report, args,
                 file, loads, hook, urlRef>>

FindStandardBones ==
    /\ result = PENDING
    /\ args.fn = "findStandardBones"
    /\ result' = [kind |-> "standard-bones",
                  bones |-> findStandardBones(args.bonesByName)]
    /\ UNCHANGED <<bones, orientation, box, bboxResult, scene, detection, report, args,
                 file, loads, hook, urlRef>>

NextRig == AnalyzeSkeleton \/ FindStandardBones

SpecRig == InitRig /\ [][NextRig]_vars

(***************************************************************************)
(* math-utils.  Specification SpecMath applies extractBasisVectors to      *)
(* every rotation of the octahedral group and vectorsApproximatelyEqual to *)
(* pairs of small integer vectors under several thresholds.                *)
(***************************************************************************)
MaxCoord == 2

\* aNorm.dot(bNorm) >= threshold, the threshold in thousandths
vectorsApproximatelyEqual(a, b, threshold) ==
    Dot(Normalize(a), Normalize(b)) >= threshold * One

\* the unit quaternions with components among 0, 1, -1 (before
\* normalisation) whose rotation matrix has integer entries
MathQuaternions ==
    {q \in {Quaternion(x, y, z, w) : x, y, z, w \in -1..1} : LengthSq(q) \in {1, 2, 4}}

MathVectors(m) == {Vec(x, y, z) : x, y, z \in (-m)..m}

\* thresholds -2, -1, 0, 0.9 and the default 0.996
Thresholds == {-2 * One, -One, 0, 900, ALIGNED}

\* unit vectors along the axes, the face diagonals and the space diagonals
UnitVectors == {Normalize(v) : v \in MathVectors(1) \ {ZeroVec}}
AxisVectors == {v \in UnitVectors : v[1] * v[2] = 0 /\ v[2] * v[3] = 0 /\ v[1] * v[3] = 0}

\* a GeometryAnalysisResult as calculateOrientationAgreement reads it
Directions(forward, up) == [detectedForward |-> forward, detectedUp |-> up]

\* pairs of results one of which is axis-aligned with up along +Y or -Y,
\* in both orders
AgreementArgs ==
    {[fn |-> "calculateOrientationAgreement",
      result1 |-> IF swap THEN Directions(g, v) ELSE Directions(f, u),
      result2 |-> IF swap THEN Directions(f, u) ELSE Directions(g, v)] :
        f \in UnitVectors, u \in UnitVectors,
        g \in AxisVectors, v \in {w \in AxisVectors : w[2] # 0},
        swap \in BOOLEAN}

MathArgs ==
    {[fn |-> "extractBasisVectors", quaternion |-> q] : q \in MathQuaternions}
    \cup AgreementArgs
    \cup UNION {{[fn |-> "vectorsApproximatelyEqual", a |-> a, b |-> b, threshold |-> t] :
                    b \in MathVectors(1) \cup {a, Neg(a), Scale(2, a)},
                    t \in Thresholds} :
                 a \in MathVectors(MaxCoord)}

InitMath ==
    /\ NotMounted
    /\ bones = NoBones
    /\ orientation = PENDING
    /\ box = NoBox
    /\ bboxResult = PENDING
    /\ scene = NoScene
    /\ detection = PENDING
    /\ report = PENDING
    /\ args \in MathArgs
    /\ result = PENDING

ExtractBasisVectors ==
    /\ result = PENDING
    /\ args.fn = "extractBasisVectors"
    /\ result' = extractBasisVectors(args.quaternion)
    /\ UNCHANGED <<bones, orientation, box, bboxResult, scene, detection, report, args,
                 file, loads, hook, urlRef>>

VectorsApproximatelyEqual ==
    /\ result = PENDING
    /\ args.fn = "vectorsApproximatelyEqual"
    /\ result' = [kind |-> "boolean",
                  value |-> vectorsApproximatelyEqual(args.a, args.b, args.threshold)]
    /\ UNCHANGED <<bones, orientation, box, bboxResult, scene, detection, report, args,
                 file, loads, hook, urlRef>>

CalculateOrientationAgreement ==
    /\ result = PENDING
    /\ args.fn = "calculateOrientationAgreement"
    /\ result' = [kind |-> "number",
                  value |-> calculateOrientationAgreement(args.result1, args.result2)]
    /\ UNCHANGED <<bones, orientation, box, bboxResult, scene, detection, report, args,
                 file, loads, hook, urlRef>>

NextMath ==
    \/ ExtractBasisVectors
    \/ VectorsApproximatelyEqual
    \/ CalculateOrientationAgreement

SpecMath == InitMath /\ [][NextMath]_vars

(***************************************************************************)
(* Properties of detectModelOrientation (checked under SpecDetect)         *)
(***************************************************************************)
Detected == detection.kind = "detection"
Methods(results) == {results[i].method : i \in 1..Len(results)}
EntryOf(results, method) ==
    results[CHOOSE i \in 1..Len(results) : results[i].method = method]

\* C1: allResults is sorted in non-increasing order of confidence, and the
\* returned forward, up, confidence and method are those of its first entry
\* whenever it is non-empty.
C1_SortedAndHead ==
    Detected =>
        LET rs == detection.allResults
        IN  /\ \A i \in 1..(Len(rs) - 1) : rs[i].confidence >= rs[i + 1].confidence
            /\ rs # <<>> =>
                  /\ detection.detectedForward = rs[1].detectedForward
                  /\ detection.detectedUp = rs[1].detectedUp
                  /\ detection.confidence = rs[1].confidence
                  /\ detection.method = rs[1].method

\* three results whose order of confidence is the reverse of the order the
\* strategies pushed them in for skeleton and bounding box
C1_Witness ==
    /\ Detected
    /\ Len(detection.allResults) = 3
    /\ detection.allResults[1].method = "bounding-box"
    /\ detection.allResults[2].method = "transform"
    /\ detection.allResults[3].method = "skeleton"

\* C2: detectModelOrientation never raises; a strategy that throws
\* contributes no entry and the other strategies still contribute theirs;
\* with no entry at all the result is up (0,1,0), forward (0,0,-1),
\* confidence 0, method 'none' and an empty allResults.
C2_NeverRaises ==
    detection # PENDING =>
        /\ Detected
        /\ LET rs == detection.allResults
               failed == detection.warnings
           IN  /\ Methods(rs) \cap failed = {}
               /\ "transform" \notin failed => "transform" \in Methods(rs)
               /\ ("bounding-box" \notin failed /\ scene.dims # <<0, 0, 0>>)
                     => "bounding-box" \in Methods(rs)
               /\ ("skeleton" \notin failed /\ scene.hasSkeleton
                      /\ calculateSkeletonOrientation(scene.skeleton) # NULL)
                     => "skeleton" \in Methods(rs)
               /\ rs = <<>> =>
                     /\ detection.detectedUp = <<0, 1000, 0>>
                     /\ detection.detectedForward = <<0, 0, -1000>>
                     /\ detection.confidence = 0
                     /\ detection.method = "none"

\* all three strategies throw on a scene with a skeleton and geometry
C2_Witness ==
    /\ Detected
    /\ detection.warnings = Strategies
    /\ scene.hasSkeleton /\ "hips" \in scene.skeleton.present
    /\ scene.dims # <<0, 0, 0>>
    /\ detection.method = "none"
    /\ detection.allResults = <<>>

\* C6: the final confidence of a skeleton result is computed from its tier
\* value c (high 0.85, medium 0.70, low 0.50) by the first matching rule of:
\* no bounding-box result -> min(c, 0.85); agreement >= 0.9 ->
\* min(c * 1.05, 0.95); agreement >= 0.7 -> min(c, 0.85); agreement >= 0.5 ->
\* c * 0.7; bounding-box confidence > 0.6 -> c * 0.4; otherwise c * 0.6.  It
\* never exceeds 0.95 and, without a bounding-box result, never the raw value.
C6_TierValue(tier) == IF tier = "high" THEN 85000 ELSE IF tier = "medium" THEN 70000 ELSE 50000
C6_Expected(c, rs) ==
    IF "bounding-box" \notin Methods(rs) THEN Min2(c, 85000)
    ELSE LET sk == EntryOf(rs, "skeleton")
             bb == EntryOf(rs, "bounding-box")
             \* 4000000 * agreement
             a == 2000000 + Dot(sk.detectedForward, bb.detectedForward)
                          + Dot(sk.detectedUp, bb.detectedUp)
         IN  IF 10 * a >= 9 * 4000000 THEN Min2((c * 105) \div 100, 95000)
             ELSE IF 10 * a >= 7 * 4000000 THEN Min2(c, 85000)
             ELSE IF 10 * a >= 5 * 4000000 THEN (c * 70) \div 100
             ELSE IF bb.confidence > 60000 THEN (c * 40) \div 100
             ELSE (c * 60) \div 100
C6_CrossValidated ==
    (Detected /\ "skeleton" \in Methods(detection.allResults)) =>
        LET rs == detection.allResults
            c == C6_TierValue(calculateSkeletonOrientation(scene.skeleton).confidence)
            final == EntryOf(rs, "skeleton").confidence
        IN  /\ final = C6_Expected(c, rs)
            /\ final <= 95000
            /\ "bounding-box" \notin Methods(rs) => final <= c

\* a high-tier skeleton strongly contradicted by a confident bounding box:
\* 0.85 * 0.4 = 0.34
C6_Witness ==
    /\ Detected
    /\ "skeleton" \in Methods(detection.allResults)
    /\ "bounding-box" \in Methods(detection.allResults)
    /\ EntryOf(detection.allResults, "bounding-box").confidence > 60000
    /\ EntryOf(detection.allResults, "skeleton").confidence = 34000

(***************************************************************************)
(* Properties of analyzeBoundingBox (checked under SpecBox)                *)
(***************************************************************************)
Analyzed == bboxResult # PENDING /\ bboxResult # NULL

Calculated == orientation # PENDING
BonePos(name) == getWorldPosition(bones, name)
Present(name) == name \in bones.present
HasBothSides ==
    /\ Present("leftShoulder") \/ Present("leftUpperArm")
    /\ Present("rightShoulder") \/ Present("rightUpperArm")
Near(u, v) == \A i \in 1..3 : Abs(u[i] - v[i]) <= 2

\* C8: the strategy follows from which bones are present, never from where
\* they are: hips, head and a shoulder or upper arm on each side give 'high';
\* otherwise hips and head give 'medium'; otherwise hips and one of spine,
\* chest, neck give 'low', with up measured from hips to neck if present,
\* else chest, else spine; otherwise null.  Bones that are present but
\* coincide still give a non-null result.
C8_StrategyByPresence ==
    Calculated =>
        IF Present("hips") /\ Present("head") /\ HasBothSides
        THEN orientation # NULL /\ orientation.confidence = "high"
        ELSE IF Present("hips") /\ Present("head")
        THEN orientation # NULL /\ orientation.confidence = "medium"
        ELSE IF Present("hips") /\ (Present("spine") \/ Present("chest") \/ Present("neck"))
        THEN /\ orientation # NULL
             /\ orientation.confidence = "low"
             /\ LET top == IF Present("neck") THEN "neck"
                           ELSE IF Present("chest") THEN "chest" ELSE "spine"
                IN  orientation.upVector = Normalize(Sub(BonePos(top), BonePos("hips")))
        ELSE orientation = NULL

\* head and hips coincide and one side has neither shoulder nor upper arm:
\* still a result, of medium confidence
C8_Witness ==
    /\ Calculated
    /\ bones.spread = 0
    /\ Present("hips") /\ Present("head") /\ Present("leftShoulder")
    /\ ~Present("rightShoulder") /\ ~Present("rightUpperArm")
    /\ orientation # NULL
    /\ orientation.confidence = "medium"
    /\ orientation.upVector = ZeroVec

\* C9: for a full skeleton, up = normalize(head - hips), forward =
\* normalize(up x (rightShoulder - leftShoulder)) and right =
\* normalize(forward x up), an upper arm standing in for a missing shoulder.
\* The T-pose (head above hips on +Y, right shoulder at +X of the left)
\* gives up (0,1,0), forward (0,0,-1), right (1,0,0), of unit length and
\* pairwise orthogonal; turned 90 or 180 degrees about Y, forward and right
\* turn with it and up stays (0,1,0).
C9_IsFull == Present("hips") /\ Present("head") /\ HasBothSides
C9_IsTPose ==
    /\ C9_IsFull /\ Present("leftShoulder") /\ Present("rightShoulder")
    /\ bones.spread > 0 /\ bones.lean = 0
C9_FullSkeletonBasis ==
    (Calculated /\ C9_IsFull) =>
        LET left  == IF Present("leftShoulder") THEN "leftShoulder" ELSE "leftUpperArm"
            right == IF Present("rightShoulder") THEN "rightShoulder" ELSE "rightUpperArm"
            up == Normalize(Sub(BonePos("head"), BonePos("hips")))
            forward == Normalize(Cross(up, Sub(BonePos(right), BonePos(left))))
            o == orientation
        IN  /\ o.upVector = up
            /\ Near(o.forwardVector, forward)
            /\ Near(o.rightVector, Normalize(Cross(o.forwardVector, o.upVector)))
            /\ (C9_IsTPose /\ bones.rot = RotId) =>
                  /\ o.upVector = <<0, 1000, 0>>
                  /\ o.forwardVector = <<0, 0, -1000>>
                  /\ o.rightVector = <<1000, 0, 0>>
                  /\ Dot(o.upVector, o.upVector) = One * One
                  /\ Dot(o.forwardVector, o.forwardVector) = One * One
                  /\ Dot(o.rightVector, o.rightVector) = One * One
                  /\ Dot(o.upVector, o.forwardVector) = 0
                  /\ Dot(o.upVector, o.rightVector) = 0
                  /\ Dot(o.forwardVector, o.rightVector) = 0
            /\ (C9_IsTPose /\ bones.rot = RotY90) =>
                  /\ o.upVector = <<0, 1000, 0>>
                  /\ o.forwardVector = <<-1000, 0, 0>>
                  /\ o.rightVector = <<0, 0, -1000>>
            /\ (C9_IsTPose /\ bones.rot = RotY180) =>
                  /\ o.upVector = <<0, 1000, 0>>
                  /\ o.forwardVector = <<0, 0, 1000>>
                  /\ o.rightVector = <<-1000, 0, 0>>

\* the T-pose turned 90 degrees about Y
C9_Witness ==
    /\ Calculated
    /\ C9_IsTPose
    /\ bones.rot = RotY90
    /\ orientation.forwardVector = <<-1000, 0, 0>>
    /\ orientation.rightVector = <<0, 0, -1000>>

(***************************************************************************)
(* Properties of validate (checked under Spec)                             *)
(***************************************************************************)
Validated == report # PENDING
Reported == report.kind = "report"
CheckIds == <<"scale", "handedness", "up-direction", "forward-direction",
              "pivot-position">>

\* C3: validate returns a report for every scene root without raising, and
\* the report's checks are always exactly the five checks in the order
\* scale, handedness, up-direction, forward-direction, pivot-position.
\* Refuted: checkPivotPosition computes Box3.setFromObject outside any try
\* block, so a scene root on which it throws makes validate raise.
C3_AlwaysReports ==
    Validated =>
        /\ Reported
        /\ Len(report.checks) = 5
        /\ \A i \in 1..5 : report.checks[i].checkId = CheckIds[i]

\* C4: suggestedCorrections holds the correctiveTransform of each failed
\* check that has one and of no passed check, every scale before every
\* rotate before every translate, corrections of one type in the order of
\* their checks; it is empty when all five checks pass.
C4_OfType(checks, t) ==
    LET Fix(i) == IF ~checks[i].passed /\ checks[i].correctiveTransform # NULL
                     /\ checks[i].correctiveTransform.type = t
                  THEN <<checks[i].correctiveTransform>> ELSE <<>>
    IN  Fix(1) \o Fix(2) \o Fix(3) \o Fix(4) \o Fix(5)
C4_CorrectionsOrdered ==
    (Validated /\ Reported) =>
        /\ report.suggestedCorrections =
              C4_OfType(report.checks, "scale") \o C4_OfType(report.checks, "rotate")
                 \o C4_OfType(report.checks, "translate")
        /\ (\A i \in 1..5 : report.checks[i].passed) => report.suggestedCorrections = <<>>

\* all five checks fail, each with a correction: two scales, two rotations
\* and a translation
C4_Witness ==
    /\ Validated /\ Reported
    /\ \A i \in 1..5 : ~report.checks[i].passed
    /\ Len(report.suggestedCorrections) = 5
    /\ report.suggestedCorrections[1] = report.checks[1].correctiveTransform
    /\ report.suggestedCorrections[2] = report.checks[2].correctiveTransform
    /\ report.suggestedCorrections[1] # report.suggestedCorrections[2]
    /\ report.suggestedCorrections[5].type = "translate"

\* C5 as stated: errorCount and warningCount count the failed checks of
\* severity 'error' and 'warning', overallPassed is errorCount = 0, and a
\* model with scale, handedness, up and pivot defects has
\* overallPassed = false and errorCount >= 2.
C5_Counts ==
    /\ report.errorCount =
          Cardinality({i \in 1..5 : ~report.checks[i].passed
                                    /\ report.checks[i].severity = "error"})
    /\ report.warningCount =
          Cardinality({i \in 1..5 : ~report.checks[i].passed
                                    /\ report.checks[i].severity = "warning"})
    /\ report.overallPassed = (report.errorCount = 0)
C5_FourDefects ==
    /\ ~report.checks[1].passed /\ ~report.checks[2].passed
    /\ ~report.checks[3].passed /\ ~report.checks[5].passed
C5_AsStated ==
    (Validated /\ Reported) =>
        /\ C5_Counts
        /\ C5_FourDefects => (~report.overallPassed /\ report.errorCount >= 2)

\* C5, amended: errorCount and warningCount count the failed checks of
\* severity 'error' and 'warning', overallPassed is errorCount = 0 (warnings
\* alone never fail a model), and a model with scale, handedness, up and
\* pivot defects has overallPassed = false and errorCount >= 1, and
\* errorCount >= 2 when its orientation was detected from a skeleton.
C5_Amended ==
    (Validated /\ Reported) =>
        /\ C5_Counts
        /\ C5_FourDefects =>
              /\ ~report.overallPassed
              /\ report.errorCount >= 1
              /\ report.checks[3].detectionMethod = "skeleton" => report.errorCount >= 2

\* the four defects on a model without a skeleton: the up failure is only a
\* warning and the handedness failure is the one error
C5_Witness ==
    /\ Validated /\ Reported
    /\ C5_FourDefects
    /\ report.checks[4].passed
    /\ report.checks[3].detectionMethod # "skeleton"
    /\ report.checks[3].severity = "warning"
    /\ report.errorCount = 1
    /\ report.warningCount = 3
    /\ ~report.overallPassed

\* C10: checkUpDirection passes when dot(detectedUp, (0,1,0)) >= 0.996.
\* Otherwise the first matching case decides: Z-up -> rotate -90 about X;
\* -Y up -> rotate 180 about Z; +X or -X up -> rotate about Z by -90 when
\* x > 0, else +90; otherwise no corrective transform, only the deviation
\* angle.
C10_UpDirectionCases ==
    (Validated /\ Reported) =>
        LET c == report.checks[3]
            up == c.measuredValue
        IN  /\ c.passed <=> up[2] >= 996
            /\ c.passed => c.correctiveTransform = NULL
            /\ ~c.passed =>
                  /\ c.deviationAngleDegrees # NULL
                  /\ c.correctiveTransform =
                        (IF up[3] >= 996
                         THEN [type |-> "rotate", axis |-> "x", angleDegrees |-> -90]
                         ELSE IF up[2] <= -996
                         THEN [type |-> "rotate", axis |-> "z", angleDegrees |-> 180]
                         ELSE IF up[1] >= 996
                         THEN [type |-> "rotate", axis |-> "z", angleDegrees |-> -90]
                         ELSE IF up[1] <= -996
                         THEN [type |-> "rotate", axis |-> "z", angleDegrees |-> 90]
                         ELSE NULL)

\* a model whose up is -X: rotate +90 about Z
C10_Witness ==
    /\ Validated /\ Reported
    /\ report.checks[3].measuredValue[1] <= -996
    /\ ~report.checks[3].passed
    /\ report.checks[3].correctiveTransform =
          [type |-> "rotate", axis |-> "z", angleDegrees |-> 90]

\* C11: a failed up-direction check has severity 'warning' whenever the
\* detection confidence is below 0.5 or the detected orientation did not
\* come from a skeleton, and severity 'error' otherwise.
\* Refuted: the low-confidence downgrade is applied to bounding-box
\* detections only, so a failed check on a skeleton detection of confidence
\* below 0.5 keeps severity 'error'.
C11_SeverityDowngrade ==
    (Validated /\ Reported /\ ~report.checks[3].passed) =>
        LET c == report.checks[3]
        IN  c.severity = (IF c.confidence < 50000 \/ c.detectionMethod # "skeleton"
                          THEN "warning" ELSE "error")

\* what the code does instead: 'warning' exactly when the detection is not
\* from a skeleton
C11_SeverityByMethod ==
    (Validated /\ Reported /\ ~report.checks[3].passed) =>
        LET c == report.checks[3]
        IN  c.severity = (IF c.detectionMethod # "skeleton" THEN "warning" ELSE "error")

\* C12: checkForwardDirection passes when dot(detectedForward, (0,0,-1)) >=
\* 0.996; otherwise the first matching case, each judged with the 0.996
\* tolerance, decides: forward along +Z -> rotate 180 about Y; forward along
\* -Y -> rotate -90 about X; otherwise no corrective transform, only the
\* deviation angle.
\* Refuted: the pointing-down case is judged with 0.9, so a forward vector
\* 14 degrees off -Y is given the rotation.
C12_ForwardDirectionCases ==
    (Validated /\ Reported) =>
        LET c == report.checks[4]
            forward == c.measuredValue
        IN  /\ c.passed <=> forward[3] <= -996
            /\ c.passed => c.correctiveTransform = NULL
            /\ ~c.passed =>
                  /\ c.deviationAngleDegrees # NULL
                  /\ c.correctiveTransform =
                        (IF forward[3] >= 996
                         THEN [type |-> "rotate", axis |-> "y", angleDegrees |-> 180]
                         ELSE IF forward[2] <= -996
                         THEN [type |-> "rotate", axis |-> "x", angleDegrees |-> -90]
                         ELSE NULL)

\* the cases as the code judges them: 0.9 for the pointing-down case
C12_ForwardDirectionCode ==
    (Validated /\ Reported) =>
        LET c == report.checks[4]
            forward == c.measuredValue
        IN  /\ c.passed <=> forward[3] <= -996
            /\ ~c.passed =>
                  c.correctiveTransform =
                        (IF forward[3] >= 996
                         THEN [type |-> "rotate", axis |-> "y", angleDegrees |-> 180]
                         ELSE IF forward[2] <= -900
                         THEN [type |-> "rotate", axis |-> "x", angleDegrees |-> -90]
                         ELSE NULL)

\* C13: checkScale passes exactly when the largest and smallest scale
\* component differ by less than 0.01 and each component is within 0.01 of
\* 1; otherwise it fails with severity 'warning' and a scale correction
\* (1/x, 1/y, 1/z), which multiplied component-wise with the measured scale
\* gives (1,1,1).
\* Refuted: for a scale with a zero component the correction holds 1/0 =
\* Infinity, and Infinity * 0 is NaN.
C13_Within(a, b) == Abs(a - b) < 2
\* the ratio r times the scale component s (in units of 1/ScaleOne) is 1
C13_GivesOne(r, s) == r[2] # 0 /\ r[1] * s = r[2] * ScaleOne
C13_ScaleCheck ==
    (Validated /\ Reported) =>
        LET c == report.checks[1]
            s == scene.scale
            uniform == \A i, j \in 1..3 : s[i] - s[j] < 2
            normalized == \A i \in 1..3 : C13_Within(s[i], ScaleOne)
        IN  /\ c.passed <=> (uniform /\ normalized)
            /\ ~c.passed =>
                  /\ c.severity = "warning"
                  /\ c.correctiveTransform.type = "scale"
                  /\ C13_GivesOne(c.correctiveTransform.x, s[1])
                  /\ C13_GivesOne(c.correctiveTransform.y, s[2])
                  /\ C13_GivesOne(c.correctiveTransform.z, s[3])

\* the same for every scale without a zero component
C13_ScaleCheckNonZero ==
    (Validated /\ Reported /\ \A i \in 1..3 : scene.scale[i] # 0) => C13_ScaleCheck

\* C14: checkHandedness passes exactly when the determinant of the root's
\* rotation-and-scale matrix is positive; the determinant is +1 for a pure
\* rotation, -1 for a single-axis mirror and s^3 for a uniform scale s, so
\* the verdict depends only on the sign of the product of the three scale
\* components; a zero or negative determinant fails with severity 'error'
\* and the correction scale(-1, 1, 1).
C14_Handedness ==
    (Validated /\ Reported) =>
        LET c == report.checks[2]
            s == scene.scale
            det == c.measuredValue
        IN  /\ c.passed <=> det > 0
            /\ det = s[1] * s[2] * s[3]
            /\ s = <<200, 200, 200>> => det = 8000000
            /\ s = <<-200, 200, 200>> => det = -8000000
            /\ c.passed <=> s[1] * s[2] * s[3] > 0
            /\ c.passed => c.correctiveTransform = NULL
            /\ ~c.passed =>
                  /\ c.severity = "error"
                  /\ c.correctiveTransform =
                        [type |-> "scale", x |-> <<-1, 1>>, y |-> <<1, 1>>, z |-> <<1, 1>>]

\* a collapsed scale under a rotation: determinant zero, the check fails
C14_Witness ==
    /\ Validated /\ Reported
    /\ scene.quaternion # RotId
    /\ scene.scale[1] = 0
    /\ report.checks[2].measuredValue = 0
    /\ ~report.checks[2].passed
    /\ report.checks[2].severity = "error"

\* C15: checkPivotPosition passes exactly when |minY| < 0.05, |centerX| <
\* 0.05 and |centerZ| < 0.05 for the world bounding box; otherwise it fails
\* with severity 'warning' and the correction translate(-centerX, -minY,
\* -centerZ), which moves the box's X/Z centre to 0 and its minimum Y to 0.
\* Refuted: the box of a scene without geometry is empty, its min.y is
\* +Infinity, and the correction translates by -Infinity.
\* a coordinate v moved by t is 0 (Infinity - Infinity is NaN)
C15_MovesToZero(v, t) == Abs(v) < Infinity /\ Abs(t) < Infinity /\ v + t = 0
C15_PivotCheck ==
    (Validated /\ Reported) =>
        LET c == report.checks[5]
            m == c.measuredValue
            fix == c.correctiveTransform
        IN  /\ scene.dims # <<0, 0, 0>> =>
                  /\ m.minY = scene.pivot[2]
                  /\ m.centerX = scene.pivot[1]
                  /\ m.centerZ = scene.pivot[3]
            /\ c.passed <=> (Abs(m.minY) < 50 /\ Abs(m.centerX) < 50 /\ Abs(m.centerZ) < 50)
            /\ c.passed => fix = NULL
            /\ ~c.passed =>
                  /\ c.severity = "warning"
                  /\ fix.type = "translate"
                  /\ C15_MovesToZero(m.centerX, fix.x)
                  /\ C15_MovesToZero(m.minY, fix.y)
                  /\ C15_MovesToZero(m.centerZ, fix.z)

\* the same for every scene that has geometry
C15_PivotCheckNonEmpty ==
    (Validated /\ Reported /\ scene.dims # <<0, 0, 0>>) => C15_PivotCheck

Extracted == args.fn = "extractBasisVectors" /\ result # PENDING
Compared == args.fn = "vectorsApproximatelyEqual" /\ result # PENDING

\* C17: extractBasisVectors returns the images of the local axes under the
\* rotation, right = R(+X), up = R(+Y), forward = R(-Z) (computed here by
\* Vector3.applyQuaternion, independently of the matrix); the identity
\* gives (1,0,0), (0,1,0), (0,0,-1) and a quarter turn about +Y gives
\* forward (-1,0,0), right (0,0,-1), up (0,1,0).
C17_BasisVectors ==
    Extracted =>
        /\ result.right = ApplyRot(args.quaternion, AxisX)
        /\ result.up = ApplyRot(args.quaternion, AxisY)
        /\ result.forward = ApplyRot(args.quaternion, Neg(AxisZ))
        /\ args.quaternion = RotId =>
              /\ result.right = Vec(One, 0, 0)
              /\ result.up = Vec(0, One, 0)
              /\ result.forward = Vec(0, 0, -One)
        /\ args.quaternion = RotY90 =>
              /\ result.forward = Vec(-One, 0, 0)
              /\ result.right = Vec(0, 0, -One)
              /\ result.up = Vec(0, One, 0)

C17_Witness ==
    /\ Extracted
    /\ args.quaternion = RotY90
    /\ result.forward = Vec(-One, 0, 0)
    /\ result.right = Vec(0, 0, -One)


\* C18: vectorsApproximatelyEqual(a, a), called with the default threshold,
\* is true for every vector a, and vectorsApproximatelyEqual(a, -a) is
\* false whatever threshold is passed.
C18_ReflexiveOppositeNever ==
    Compared =>
        /\ (args.b = args.a /\ args.threshold = ALIGNED) => result.value
        /\ args.b = Neg(args.a) => ~result.value

\* what the code does: the two halves hold of vectors other than zero,
\* the second for thresholds above -1
C18_NonZero ==
    (Compared /\ args.a # ZeroVec) =>
        /\ (args.b = args.a /\ args.threshold = ALIGNED) => result.value
        /\ (args.b = Neg(args.a) /\ args.threshold > -One) => ~result.value

C18_ZeroVector ==
    /\ Compared
    /\ args.a = ZeroVec
    /\ args.b = ZeroVec
    /\ args.threshold = ALIGNED
    /\ ~result.value

C18_OppositeEqual ==
    /\ Compared
    /\ args.a = Vec(0, 1, 0)
    /\ args.b = Vec(0, -1, 0)
    /\ args.threshold = -One
    /\ result.value


(***************************************************************************)
(* Applying a correction.  The core only describes corrections; these      *)
(* operators say what a description means: a rotate correction is the      *)
(* right-handed rotation by angleDegrees about the named world axis.       *)
(***************************************************************************)
RotationAbout(axis, angleDegrees) ==
    CASE axis = "x" /\ angleDegrees = 90 -> RotX90
      [] axis = "x" /\ angleDegrees = -90 -> RotXm90
      [] axis = "y" /\ angleDegrees = 90 -> RotY90
      [] axis = "y" /\ angleDegrees = 180 -> RotY180
      [] axis = "z" /\ angleDegrees = 90 -> RotZ90
      [] axis = "z" /\ angleDegrees = -90 -> RotZm90
      [] axis = "z" /\ angleDegrees = 180 -> RotZ180

Rotated(t, v) == ApplyRot(RotationAbout(t.axis, t.angleDegrees), v)

IsAligned(v, target) == Dot(v, target) >= ALIGNED * One

DirectionTarget(checkId) ==
    IF checkId = "up-direction" THEN AxisY ELSE Neg(AxisZ)

FailedWithRotate(c) ==
    /\ c.checkId \in {"up-direction", "forward-direction"}
    /\ ~c.passed
    /\ c.correctiveTransform # NULL

\* C20: whenever a failed up-direction or forward-direction check carries a
\* rotate correction, the right-handed rotation by angleDegrees about the
\* named world axis takes the detected vector to the check's target (to
\* within the checks' own tolerance): (0,1,0) for the up check, (0,0,-1)
\* for the forward check.
C20_RotateReachesTarget ==
    (Validated /\ Reported) =>
        \A i \in 3..4 :
            FailedWithRotate(report.checks[i]) =>
                IsAligned(Rotated(report.checks[i].correctiveTransform,
                                  report.checks[i].measuredValue),
                          DirectionTarget(report.checks[i].checkId))

\* the cases whose rotation does reach the target: Z-up and upside-down for
\* the up check, backwards (+Z) for the forward check
C20_CorrectCases ==
    (Validated /\ Reported) =>
        \A i \in 3..4 :
            (/\ FailedWithRotate(report.checks[i])
             /\ report.checks[i].correctiveTransform \in
                   {RotateTransform("x", -90), RotateTransform("z", 180),
                    RotateTransform("y", 180)}
             /\ i = 4 => report.checks[i].correctiveTransform.axis = "y") =>
                IsAligned(Rotated(report.checks[i].correctiveTransform,
                                  report.checks[i].measuredValue),
                          DirectionTarget(report.checks[i].checkId))

\* a sideways model (+X up) told to turn -90 degrees about Z, which takes
\* its up vector to -Y
C20_SidewaysWrongWay ==
    /\ Validated /\ Reported
    /\ report.checks[3].measuredValue = AxisX
    /\ report.checks[3].correctiveTransform = RotateTransform("z", -90)
    /\ Rotated(report.checks[3].correctiveTransform, AxisX) = Neg(AxisY)

\* a model facing down (-Y) told to turn -90 degrees about X, which takes
\* its forward vector to +Z
C20_PointingDownWrongWay ==
    /\ Validated /\ Reported
    /\ report.checks[4].measuredValue = Neg(AxisY)
    /\ report.checks[4].correctiveTransform = RotateTransform("x", -90)
    /\ Rotated(report.checks[4].correctiveTransform, Neg(AxisY)) = AxisZ


(***************************************************************************)
(* Applying the list of corrections to the measured model: the scale of    *)
(* the root, the detected up and forward vectors and the world bounding    *)
(* box.  A scale correction multiplies the scale component-wise, a rotate  *)
(* correction turns the vectors and the box about the world origin, a      *)
(* translate correction moves the box.                                     *)
(***************************************************************************)
Measured ==
    [scale |-> scene.scale, quaternion |-> scene.quaternion,
     up |-> report.checks[3].measuredValue,
     forward |-> report.checks[4].measuredValue,
     dims |-> scene.dims, pivot |-> scene.pivot]

\* s * (num/den); a product with 1/0 or with a non-finite factor is not
\* finite
Times(s, r) ==
    IF r[2] = 0 \/ Abs(s) >= Infinity THEN Infinity ELSE (s * r[1]) \div r[2]

Scaled(t, m) ==
    [m EXCEPT !.scale = <<Times(m.scale[1], t.x), Times(m.scale[2], t.y),
                          Times(m.scale[3], t.z)>>]

BoxLo(m) ==
    <<m.pivot[1] - (m.dims[1] \div 2), m.pivot[2], m.pivot[3] - (m.dims[3] \div 2)>>
BoxHi(m) ==
    <<m.pivot[1] + (m.dims[1] \div 2), m.pivot[2] + m.dims[2],
      m.pivot[3] + (m.dims[3] \div 2)>>

\* the axis-aligned box with opposite corners a and b, as dims and pivot
BoxDims(a, b) == <<Abs(a[1] - b[1]), Abs(a[2] - b[2]), Abs(a[3] - b[3])>>
BoxPivot(a, b) ==
    <<(a[1] + b[1]) \div 2, Min2(a[2], b[2]), (a[3] + b[3]) \div 2>>

Turned(t, m) ==
    IF m.dims = <<0, 0, 0>>
    THEN [m EXCEPT !.up = Rotated(t, m.up), !.forward = Rotated(t, m.forward)]
    ELSE [m EXCEPT !.up = Rotated(t, m.up), !.forward = Rotated(t, m.forward),
                   !.dims = BoxDims(Rotated(t, BoxLo(m)), Rotated(t, BoxHi(m))),
                   !.pivot = BoxPivot(Rotated(t, BoxLo(m)), Rotated(t, BoxHi(m)))]

Moved(t, m) ==
    IF Abs(t.y) >= Infinity THEN m
    ELSE [m EXCEPT !.pivot = <<m.pivot[1] + t.x, m.pivot[2] + t.y, m.pivot[3] + t.z>>]

Corrected(t, m) ==
    CASE t.type = "scale" -> Scaled(t, m)
      [] t.type = "rotate" -> Turned(t, m)
      [] t.type = "translate" -> Moved(t, m)

RECURSIVE CorrectedBy(_, _)
CorrectedBy(corrections, m) ==
    IF corrections = <<>> THEN m
    ELSE CorrectedBy(Tail(corrections), Corrected(Head(corrections), m))

IsFinite(v) == \A i \in 1..3 : Abs(v[i]) < Infinity

\* the verdict of check number i on the model m
PassesOn(i, m) ==
    CASE i = 1 -> IsFinite(m.scale) /\ checkScale(m).passed
      [] i = 2 -> /\ IsFinite(m.scale)
                  /\ HandednessOf(matrix3x3Determinant(
                         compose(m.quaternion, m.scale))).passed
      [] i = 3 -> IsAligned(m.up, AxisY)
      [] i = 4 -> IsAligned(m.forward, Neg(AxisZ))
      [] i = 5 -> checkPivotPosition(m, {}).passed

Contributed(c) == ~c.passed /\ c.correctiveTransform # NULL

AllContributorsPass(checks, m) ==
    \A i \in 1..5 : Contributed(checks[i]) => PassesOn(i, m)

\* C19: applying suggestedCorrections in list order to the measured model
\* gives a model on which every check that contributed a correction
\* passes; a defect reported by two checks is not corrected twice.
C19_CorrectionsCompose ==
    (Validated /\ Reported) =>
        AllContributorsPass(report.checks,
                            CorrectedBy(report.suggestedCorrections, Measured))

\* a mirrored root: the scale check and the handedness check both answer
\* scale (-1, 1, 1), and the two together leave the mirror in place
C19_MirrorCorrectedTwice ==
    /\ Validated /\ Reported
    /\ scene.scale = <<-ScaleOne, ScaleOne, ScaleOne>>
    /\ Contributed(report.checks[1])
    /\ Contributed(report.checks[2])
    /\ CorrectedBy(report.suggestedCorrections, Measured).scale = scene.scale

\* a Z-up export: the up check and the forward check both answer rotate x
\* by -90, and the half turn they add up to leaves up at -Z
C19_ZUpCorrectedTwice ==
    /\ Validated /\ Reported
    /\ Measured.up = AxisZ
    /\ report.checks[3].correctiveTransform = RotateTransform("x", -90)
    /\ report.checks[4].correctiveTransform = RotateTransform("x", -90)
    /\ CorrectedBy(report.suggestedCorrections, Measured).up = Neg(AxisZ)

\* a single defect, a scale without a zero component and not mirrored, or
\* a pivot offset of a model with geometry, is put right by its correction
C19_SingleDefect ==
    (/\ Validated /\ Reported
     /\ Len(report.suggestedCorrections) = 1
     /\ Contributed(report.checks[1]) \/ Contributed(report.checks[5])
     /\ scene.dims # <<0, 0, 0>>) =>
        AllContributorsPass(report.checks,
                            CorrectedBy(report.suggestedCorrections, Measured))


(***************************************************************************)
(* Further properties of detectModelOrientation (checked under SpecDetect) *)
(***************************************************************************)
IndexOf(results, method) ==
    CHOOSE i \in 1..Len(results) : results[i].method = method

Contradicted(results) ==
    /\ {"skeleton", "bounding-box"} \subseteq Methods(results)
    /\ calculateOrientationAgreement(EntryOf(results, "skeleton"),
                                     EntryOf(results, "bounding-box")) < 2000000
    /\ EntryOf(results, "bounding-box").confidence > 60000

\* C21: whenever the skeleton and bounding-box results have agreement below
\* 0.5 and the bounding-box confidence is above 0.6, the bounding-box result
\* precedes the skeleton result in allResults and supplies the detected
\* orientation.
C21_BoundingBoxOverrules ==
    (Detected /\ Contradicted(detection.allResults)) =>
        /\ IndexOf(detection.allResults, "bounding-box")
              < IndexOf(detection.allResults, "skeleton")
        /\ detection.method = "bounding-box"
        /\ detection.detectedUp = EntryOf(detection.allResults, "bounding-box").detectedUp
        /\ detection.detectedForward =
              EntryOf(detection.allResults, "bounding-box").detectedForward
        /\ detection.confidence = EntryOf(detection.allResults, "bounding-box").confidence

\* a high-tier skeleton lying on its side and facing +Y inside a Z-tallest
\* box: the skeleton result drops to 0.34, behind the box and the transform
C21_Witness ==
    /\ Detected
    /\ Contradicted(detection.allResults)
    /\ EntryOf(detection.allResults, "skeleton").detectedUp = AxisX
    /\ EntryOf(detection.allResults, "skeleton").confidence = 34000
    /\ detection.detectedUp = AxisZ
    /\ detection.method = "bounding-box"


PossiblySideways(results) ==
    /\ "bounding-box" \in Methods(results)
    /\ EntryOf(results, "bounding-box").issue = "possibly-sideways"

\* C22: when the transform result is present, a bounding-box result
\* classified 'possibly-sideways' (confidence 0.25) is never the head of
\* allResults; without a skeleton result the detected orientation is then
\* the transform result (confidence 0.3): up is the root rotation applied to
\* +Y, not the box's +X verdict.
C22_SidewaysNeverHead ==
    (/\ Detected
     /\ PossiblySideways(detection.allResults)
     /\ "transform" \in Methods(detection.allResults)) =>
        /\ EntryOf(detection.allResults, "bounding-box").confidence = 25000
        /\ detection.allResults[1].method # "bounding-box"
        /\ detection.method # "bounding-box"
        /\ "skeleton" \notin Methods(detection.allResults) =>
              /\ detection.method = "transform"
              /\ detection.confidence = 30000
              /\ detection.detectedUp = ApplyRot(scene.quaternion, AxisY)
              /\ detection.detectedForward = ApplyRot(scene.quaternion, Neg(AxisZ))

\* a flat wide box without a skeleton on an unrotated root: the box says
\* +X is up, the detection says +Y
C22_Witness ==
    /\ Detected
    /\ PossiblySideways(detection.allResults)
    /\ Len(detection.allResults) = 2
    /\ detection.allResults[1].method = "transform"
    /\ detection.allResults[2].detectedUp = AxisX
    /\ detection.detectedUp = AxisY


(***************************************************************************)
(* Further properties of calculateSkeletonOrientation (checked under       *)
(* SpecSkeleton)                                                           *)
(***************************************************************************)
\* C23: every orientation returned by calculateSkeletonOrientation, by any
\* of its three strategies, satisfies right = cross(forward, up) (to within
\* 0.002 in each component).
C23_RightIsForwardCrossUp ==
    (Calculated /\ orientation # NULL) =>
        Near(orientation.rightVector,
             Normalize(Cross(orientation.forwardVector, orientation.upVector)))

\* the full-skeleton strategy does satisfy it
C23_FullSkeleton ==
    (Calculated /\ orientation # NULL /\ orientation.confidence = "high") =>
        Near(orientation.rightVector,
             Normalize(Cross(orientation.forwardVector, orientation.upVector)))

\* an upright pose facing -Z resolved by the spine-only strategy: right is
\* (-1,0,0), where the full-skeleton strategy gives (1,0,0)
C23_SpineOnlyMirrored ==
    /\ Calculated /\ orientation # NULL
    /\ orientation.confidence = "medium"
    /\ orientation.upVector = AxisY
    /\ orientation.forwardVector = Neg(AxisZ)
    /\ orientation.rightVector = Neg(AxisX)

\* the same for the partial-spine strategy
C23_PartialSpineMirrored ==
    /\ Calculated /\ orientation # NULL
    /\ orientation.confidence = "low"
    /\ orientation.upVector = AxisY
    /\ orientation.forwardVector = Neg(AxisZ)
    /\ orientation.rightVector = Neg(AxisX)


(***************************************************************************)
(* Properties of calculateOrientationAgreement (checked under SpecMath)    *)
(***************************************************************************)
Agreed == args.fn = "calculateOrientationAgreement" /\ result # PENDING

\* the agreement score, in units of 1/4000000, stands within 0.001 of n/4
C24_About(score, n) == Abs(score - n * One * One) <= 4 * One

C24_Same(a, b) == a = b
C24_Opposite(a, b) == a = Neg(b)
C24_Perpendicular(a, b) == Dot(a, b) = 0

\* C24: the agreement score of two results is
\* ((dot(forward1, forward2) + 1)/2 + (dot(up1, up2) + 1)/2)/2: 1.0 when
\* both forward and up coincide, 0.5 when both pairs are perpendicular, 0.0
\* when both pairs are exactly opposite; it is symmetric in its arguments
\* and lies in [0, 1] for unit vectors.
C24_AgreementScore ==
    Agreed =>
        LET f1 == args.result1.detectedForward  u1 == args.result1.detectedUp
            f2 == args.result2.detectedForward  u2 == args.result2.detectedUp
        IN  /\ (C24_Same(f1, f2) /\ C24_Same(u1, u2)) => C24_About(result.value, 4)
            /\ (C24_Perpendicular(f1, f2) /\ C24_Perpendicular(u1, u2))
                  => C24_About(result.value, 2)
            /\ (C24_Opposite(f1, f2) /\ C24_Opposite(u1, u2)) => C24_About(result.value, 0)
            /\ (C24_Same(f1, f2) /\ C24_Opposite(u1, u2)) => C24_About(result.value, 2)
            /\ result.value = calculateOrientationAgreement(args.result2, args.result1)
            /\ result.value >= 0
            /\ result.value <= 4 * One * One

\* forward and up both exactly opposite: agreement 0
C24_Witness ==
    /\ Agreed
    /\ args.result1 = Directions(Neg(AxisZ), AxisY)
    /\ args.result2 = Directions(AxisZ, Neg(AxisY))
    /\ result.value = 0


TransformEntries(results) ==
    {i \in 1..Len(results) : results[i].method = "transform"}

\* C25: every call of detectModelOrientation on a root whose rotation can
\* be read adds exactly one 'transform' result, of confidence 0.3, whose
\* forward and up are the root rotation applied to -Z and +Y; for a root
\* with no geometry and no bones it is the only entry of allResults and is
\* the detected orientation.
C25_TransformFallback ==
    (Detected /\ "transform" \notin detection.warnings) =>
        /\ Cardinality(TransformEntries(detection.allResults)) = 1
        /\ EntryOf(detection.allResults, "transform").confidence = 30000
        /\ EntryOf(detection.allResults, "transform").detectedForward
              = ApplyRot(scene.quaternion, Neg(AxisZ))
        /\ EntryOf(detection.allResults, "transform").detectedUp
              = ApplyRot(scene.quaternion, AxisY)
        /\ (~scene.hasSkeleton /\ scene.dims = <<0, 0, 0>>) =>
              /\ Len(detection.allResults) = 1
              /\ detection.method = "transform"
              /\ detection.confidence = 30000
              /\ detection.detectedForward = ApplyRot(scene.quaternion, Neg(AxisZ))
              /\ detection.detectedUp = ApplyRot(scene.quaternion, AxisY)

\* an empty root turned a quarter turn about X: the detection is the
\* transform result alone, up (0,0,1)
C25_Witness ==
    /\ Detected
    /\ ~scene.hasSkeleton /\ scene.dims = <<0, 0, 0>>
    /\ scene.quaternion = RotX90
    /\ detection.warnings = {}
    /\ Len(detection.allResults) = 1
    /\ detection.method = "transform"
    /\ detection.detectedUp = AxisZ


(***************************************************************************)
(* Further properties of analyzeBoundingBox (checked under SpecBox)        *)
(***************************************************************************)
\* min(0.6, 0.3 + (heightRatio - 1) * 0.15) with heightRatio = height /
\* max(width, depth), in units of 10^-5; a ratio with denominator 0 is
\* Infinity
C26_YFormula(dims) ==
    IF Max2(dims[1], dims[3]) = 0 THEN 60000
    ELSE Min2(60000,
              30000 + ((15000 * (dims[2] - Max2(dims[1], dims[3])))
                          \div Max2(dims[1], dims[3])))

\* min(0.7, 0.4 + |Z/Y - 1| * 0.2)
C26_ZFormula(dims) ==
    IF dims[2] = 0 THEN 70000
    ELSE Min2(70000, 40000 + ((20000 * Abs(dims[3] - dims[2])) \div dims[2]))

C26_IsYTallest(dims) ==
    dims # <<0, 0, 0>> /\ dims[2] >= dims[1] /\ dims[2] >= dims[3]

\* heightRatio of a is at least heightRatio of b
C26_RatioAtLeast(a, b) ==
    a[2] * Max2(b[1], b[3]) >= b[2] * Max2(a[1], a[3])

\* C26: for a Y-tallest box the bounding-box confidence equals
\* min(0.6, 0.3 + (heightRatio - 1) * 0.15) with heightRatio = height /
\* max(width, depth) (to within one unit of rounding), lies in [0.3, 0.6],
\* is non-decreasing in heightRatio and is the same for the box and its
\* copy scaled by 2; for a Z-tallest box it equals
\* min(0.7, 0.4 + |Z/Y - 1| * 0.2) and lies in [0.4, 0.7].
C26_BoxConfidence ==
    Analyzed =>
        /\ bboxResult.tallestAxis = "Y" =>
              /\ Abs(bboxResult.confidence - C26_YFormula(box)) <= 1
              /\ bboxResult.confidence >= 30000
              /\ bboxResult.confidence <= 60000
              /\ analyzeBoundingBox(Scale(2, box)).confidence = bboxResult.confidence
              /\ \A other \in BoxInputs :
                    (C26_IsYTallest(other) /\ C26_RatioAtLeast(other, box)) =>
                        analyzeBoundingBox(other).confidence >= bboxResult.confidence
        /\ bboxResult.tallestAxis = "Z" =>
              /\ bboxResult.confidence = C26_ZFormula(box)
              /\ bboxResult.confidence >= 40000
              /\ bboxResult.confidence <= 70000

\* the Z-tallest half, which the code satisfies
C26_ZTallest ==
    (Analyzed /\ bboxResult.tallestAxis = "Z") =>
        /\ bboxResult.confidence = C26_ZFormula(box)
        /\ bboxResult.confidence >= 40000
        /\ bboxResult.confidence <= 70000

\* the Y-tallest confidence as the code computes it: never above 0.6 nor
\* above the formula, and for extents that are multiples of 0.1 below 0.3
\* by less than 0.0015
C26_YTallestCode ==
    (Analyzed /\ bboxResult.tallestAxis = "Y") =>
        /\ bboxResult.confidence <= 60000
        /\ bboxResult.confidence > 30000 - 150
        /\ bboxResult.confidence <= C26_YFormula(box)

\* the unit cube: heightRatio = 1 / 1.001, confidence 0.29985
C26_CubeBelowRange ==
    /\ Analyzed
    /\ box = <<One, One, One>>
    /\ bboxResult.tallestAxis = "Y"
    /\ bboxResult.confidence = 29985

\* a box and its copy scaled by 2 rated differently
C26_ScaleChangesConfidence ==
    /\ Analyzed
    /\ bboxResult.tallestAxis = "Y"
    /\ analyzeBoundingBox(Scale(2, box)).confidence > bboxResult.confidence


(***************************************************************************)
(* Properties of skeleton-detector (checked under SpecRig)                 *)
(***************************************************************************)
Found == args.fn = "findStandardBones" /\ result # PENDING
Analysed == args.fn = "analyzeSkeleton" /\ result # PENDING

MatchesSlot(slot, key) ==
    \E k \in 1..Len(BONE_PATTERNS[slot]) : RegExpTest(BONE_PATTERNS[slot][k], key)

\* the places in the map of the entries whose key matches the slot
Matching(map, slot) == {i \in 1..Len(map) : MatchesSlot(slot, map[i].key)}

First(places) == CHOOSE i \in places : \A j \in places : i <= j
Last(places) == CHOOSE i \in places : \A j \in places : j <= i

\* C27: findStandardBones fills each of the nine slots with the first bone,
\* in bonesByName iteration order, whose name matches any pattern of that
\* slot, case-insensitively; a slot once filled is not reassigned by a later
\* bone, and a slot with no matching bone stays null.
C27_FirstBonePerSlot ==
    Found =>
        /\ DOMAIN result.bones = {StandardNames[i] : i \in 1..9}
        /\ \A slot \in DOMAIN result.bones :
              IF Matching(args.bonesByName, slot) = {}
              THEN result.bones[slot] = NULL
              ELSE result.bones[slot]
                      = args.bonesByName[First(Matching(args.bonesByName, slot))].bone

\* 'Pelvis' before 'Hips': the hips slot holds the Pelvis bone, although
\* the later 'Hips' matches a pattern listed earlier (and in upper case)
C27_Witness ==
    /\ Found
    /\ Len(args.bonesByName) >= 2
    /\ args.bonesByName[1].key = Name_Pelvis
    /\ args.bonesByName[2].key = Name_Hips
    /\ result.bones.hips = args.bonesByName[1].bone
    /\ result.bones.spine = NULL

\* the identities of the bones in the scene graph: the Bone nodes and the
\* bones bound to a SkinnedMesh node
BoundTo(node) ==
    IF node.type = "SkinnedMesh" /\ node.skeleton # NULL
    THEN {node.skeleton.bones[i].id : i \in 1..Len(node.skeleton.bones)}
    ELSE {}
BonesIn(object) ==
    UNION {(IF Traverse(object)[k].type = "Bone" THEN {Traverse(object)[k].id} ELSE {})
           \cup BoundTo(Traverse(object)[k]) : k \in 1..Len(Traverse(object))}

Named(allBones, key) ==
    {i \in 1..Len(allBones) : toLowerCase(allBones[i].name) = key}

\* C28: analyzeSkeleton lists every bone reached by traversal or bound to
\* a skinned mesh exactly once in allBones, and keys bonesByName by the
\* lowercased bone name, the later-collected of two bones with the same
\* lowercased name replacing the earlier one; bonesByName never has more
\* entries than allBones.
C28_BonesCollectedOnce ==
    Analysed =>
        /\ {result.allBones[i].id : i \in 1..Len(result.allBones)} = BonesIn(args.object)
        /\ Len(result.allBones) = Cardinality(BonesIn(args.object))
        /\ MapKeys(result.bonesByName)
              = {toLowerCase(result.allBones[i].name) : i \in 1..Len(result.allBones)}
        /\ Len(result.bonesByName) = Cardinality(MapKeys(result.bonesByName))
        /\ \A e \in 1..Len(result.bonesByName) :
              result.bonesByName[e].bone
                 = result.allBones[Last(Named(result.allBones, result.bonesByName[e].key))]
        /\ Len(result.bonesByName) <= Len(result.allBones)

\* bones 'Hips' and 'hips' bound to a skinned mesh, last first, and met
\* again by the traversal: two bones, one key, held by the later-collected
C28_Witness ==
    /\ Analysed
    /\ Len(args.object.children) = 2
    /\ Cardinality(BoundTo(args.object.children[1])) = 2
    /\ Len(result.allBones) = 2
    /\ result.allBones[1].id = 2
    /\ result.allBones[1].name = Name_hips
    /\ result.allBones[2].name = Name_Hips
    /\ Len(result.bonesByName) = 1
    /\ result.bonesByName[1].bone.id = 1

left == <<"l", "e", "f", "t">>
right == <<"r", "i", "g", "h", "t">>
UnityNames ==
    {side \o part \o limb :
        side \in {left, right},
        part \in {<<>>, <<"u", "p", "p", "e", "r">>, <<"l", "o", "w", "e", "r">>},
        limb \in {<<"a", "r", "m">>, <<"l", "e", "g">>, <<"h", "a", "n", "d">>,
                  <<"f", "o", "o", "t">>}}

CollectedNames ==
    {toLowerCase(result.allBones[i].name) : i \in 1..Len(result.allBones)}

\* C29: detectedRigType is decided by the first matching rule over the
\* collected lowercased bone names: some name starts with 'mixamorig' ->
\* mixamo; else some name is (left|right)(upper|lower)?(arm|leg|hand|foot)
\* -> unity-humanoid; else some name starts with 'bip' -> unreal; else at
\* least one bone -> custom; else unknown.
C29_RigTypeByFirstRule ==
    Analysed =>
        result.detectedRigType =
            (IF \E n \in CollectedNames : Len(n) >= 9 /\ SubSeq(n, 1, 9) = mixamorig
             THEN "mixamo"
             ELSE IF CollectedNames \cap UnityNames # {} THEN "unity-humanoid"
             ELSE IF \E n \in CollectedNames : Len(n) >= 3 /\ SubSeq(n, 1, 3) = bip
             THEN "unreal"
             ELSE IF CollectedNames # {} THEN "custom"
             ELSE "unknown")

\* a rig with 'LeftArm', 'Bip01_Spine' and 'mixamorig:Hips': all three
\* rules match and the first decides
C29_Witness ==
    /\ Analysed
    /\ {Name_LeftArm, Name_BipSpine, Name_MixamoHips}
          = {result.allBones[i].name : i \in 1..Len(result.allBones)}
    /\ result.detectedRigType = "mixamo"


(***************************************************************************)
(* useModelLoader(file): the effect of the hook, its cleanup and the       *)
(* settling of loader.loadAsync.                                           *)
(***************************************************************************)
\* how many times the effect runs with a file
MaxLoads == 3

File_ModelGLB == [name |-> <<"M", "o", "d", "e", "l", ".", "G", "L", "B">>]
File_SceneGltf == [name |-> <<"s", "c", "e", "n", "e", ".", "v", "2", ".", "g", "l", "t", "f">>]
File_RigFbx == [name |-> <<"r", "i", "g", ".", "f", "b", "x">>]
File_NotesTxt == [name |-> <<"n", "o", "t", "e", "s", ".", "t", "x", "t">>]
File_Readme == [name |-> <<"R", "E", "A", "D", "M", "E">>]
Files == {File_ModelGLB, File_SceneGltf, File_RigFbx, File_NotesTxt, File_Readme}

glb == <<"g", "l", "b">>
gltf == <<"g", "l", "t", "f">>
fbx == <<"f", "b", "x">>

\* file.name.split('.').pop()?.toLowerCase(): what follows the last dot,
\* the whole name when it has none
Extension(name) ==
    LET dots == {k \in 1..Len(name) : name[k] = "."}
        from == IF dots = {} THEN 1
                ELSE 1 + CHOOSE k \in dots : \A j \in dots : j <= k
    IN toLowerCase(SubSeq(name, from, Len(name)))

\* new Error(`Unsupported format: ${extension}`).message
Unsupported(extension) == [message |-> "Unsupported format", extension |-> extension]

\* how loader.loadAsync settles: it resolves, it rejects with an Error, or
\* it rejects with something that is not an Error
Outcomes == {"resolved", "rejected-error", "rejected-other"}

\* err instanceof Error ? err.message : 'Failed to load model'
Message(outcome) ==
    IF outcome = "rejected-error" THEN [message |-> "err.message"]
    ELSE [message |-> "Failed to load model"]

\* URL.createObjectURL(file) of load i
ObjectURL(i) == [kind |-> "url", load |-> i]

\* the loadedScene of load i
Group(i) == [kind |-> "group", load |-> i]

Cleanup_keepsRunning(ls, previous) == ls

\* the cleanup React runs before the effect runs again: the effect of a
\* null file returned none, the effect of a file sets its isCancelled
Cleanup(ls, previous) ==
    IF previous = NULL THEN ls
    ELSE [ls EXCEPT ![Len(ls)].isCancelled = TRUE]

\* URL.revokeObjectURL(urlRef.current) when urlRef.current is set
Revoke(ls, ref) ==
    IF ref = NULL THEN ls ELSE [ls EXCEPT ![ref.load].url = "revoked"]

\* the effect for a file: loadModel() runs up to its first await, or, for
\* an extension no loader takes, through its catch block
LoadModel(ls, f) ==
    LET supported == Extension(f.name) \in {glb, gltf, fbx}
    IN [loads |-> Append(ls, [file |-> f,
                              isCancelled |-> FALSE,
                              url |-> "live",
                              status |-> IF supported THEN "loading" ELSE "settled",
                              superseded |-> FALSE]),
        hook |-> IF supported
                 THEN [scene |-> NULL, isLoading |-> TRUE, error |-> NULL]
                 ELSE [scene |-> NULL, isLoading |-> FALSE,
                       error |-> Unsupported(Extension(f.name))]]

\* the load of the file the hook was last rendered with (0: none)
Current == IF file = NULL THEN 0 ELSE Len(loads)

\* file changes to another file: React runs the cleanup of the previous
\* effect, then the effect
FileChanges(f) ==
    /\ f # file
    /\ Len(loads) < MaxLoads
    /\ file' = f
    /\ loads' = LoadModel(Revoke(Cleanup(loads, file), urlRef), f).loads
    /\ hook' = LoadModel(Revoke(Cleanup(loads, file), urlRef), f).hook
    /\ urlRef' = ObjectURL(Len(loads) + 1)
    /\ UNCHANGED <<bones, orientation, box, bboxResult, scene, detection, report,
                   args, result>>

\* file is cleared: the cleanup of the previous effect, then the effect
\* taking its !file branch
FileCleared ==
    /\ file # NULL
    /\ file' = NULL
    /\ loads' = Cleanup(loads, file)
    /\ hook' = [scene |-> NULL, isLoading |-> FALSE, error |-> NULL]
    /\ UNCHANGED <<bones, orientation, box, bboxResult, scene, detection, report,
                   args, result, urlRef>>

\* loader.loadAsync of load i settles and loadModel resumes after its
\* await. (superseded records for the properties whether the file had
\* changed by then; the hook keeps no such value.)
LoadSettles(i, outcome) ==
    /\ loads[i].status = "loading"
    /\ loads' = [loads EXCEPT ![i].status = "settled",
                              ![i].superseded = (i # Current)]
    /\ hook' = IF loads[i].isCancelled THEN hook
               ELSE IF outcome = "resolved"
               THEN [hook EXCEPT !.scene = Group(i), !.isLoading = FALSE]
               ELSE [hook EXCEPT !.error = Message(outcome), !.isLoading = FALSE]
    /\ UNCHANGED <<bones, orientation, box, bboxResult, scene, detection, report,
                   args, result, file, urlRef>>

InitLoader ==
    /\ bones = NoBones
    /\ orientation = PENDING
    /\ box = NoBox
    /\ bboxResult = PENDING
    /\ scene = NoScene
    /\ detection = PENDING
    /\ report = PENDING
    /\ args = NoArgs
    /\ result = PENDING
    /\ NotMounted

NextLoader ==
    \/ \E f \in Files : FileChanges(f)
    \/ FileCleared
    \/ \E i \in 1..Len(loads), outcome \in Outcomes : LoadSettles(i, outcome)

SpecLoader == InitLoader /\ [][NextLoader]_vars

(***************************************************************************)
(* Properties of useModelLoader (checked under SpecLoader)                 *)
(***************************************************************************)
\* this step is the settling of load i
Settling(i) ==
    /\ loads[i].status = "loading"
    /\ Len(loads') = Len(loads)
    /\ loads'[i].status = "settled"

\* C30: once the file changes or is cleared while a load is in flight, the
\* later completion of that superseded load, success or failure, changes
\* none of scene, error and isLoading; apart from the change of file
\* itself, only the load started for the current file sets them.
C30_SupersededLoadChangesNothing ==
    [][ /\ \A i \in 1..Len(loads) :
              Settling(i) /\ i # Current => hook' = hook
        /\ hook' # hook => file' # file \/ (Current # 0 /\ Settling(Current))
      ]_vars

\* the first load settled after the file had changed, the second is still
\* in flight, and the hook shows the second as loading
C30_Witness ==
    /\ Len(loads) = 2
    /\ loads[1].status = "settled"
    /\ loads[1].superseded
    /\ loads[2].status = "loading"
    /\ file = loads[2].file
    /\ hook = [scene |-> NULL, isLoading |-> TRUE, error |-> NULL]

=============================================================================
